---- MODULE Spec2Model ----
(***************************************************************************)
(* Model of bsv_llm's on-chain data protocol: the payload codec, the       *)
(* compression decision, chunking, OP_RETURN script extraction and hash    *)
(* verification (src/src/bsv_llm/storage.py, retrieval.py), driven by      *)
(* the public operations store / get / get_chunked / verify over a         *)
(* transport (src/src/bsv_llm/client.py) that may fail.                    *)
(*                                                                         *)
(* Byte strings keep their real lengths (90,000-byte chunks, 65,535-byte   *)
(* metadata), so a Python `bytes` value is held run-length encoded: a      *)
(* sequence of runs [b |-> byte value, e |-> end offset], where run k      *)
(* covers the offsets [previous e, e).  The form is canonical (no empty    *)
(* run, neighbouring runs differ in b), so two byte strings are equal      *)
(* exactly when their run sequences are equal.                             *)
(***************************************************************************)
EXTENDS Integers, Sequences, FiniteSets, TLC

(***************************************************************************)
(* bytes                                                                   *)
(***************************************************************************)

\* The sequence q with its elements evaluated.
Tuple(q) == q \o <<>>

\* In(v): the value v is computed once and then named, as a local
\* variable's is.
Let(v, In(_)) == CHOOSE r \in {In(w) : w \in {v}} : TRUE

\* len(s)
BLen(s) == IF Len(s) = 0 THEN 0 ELSE s[Len(s)].e

\* bytes([b]) * n
Rep(b, n) == IF n <= 0 THEN <<>> ELSE <<[b |-> b, e |-> n]>>

\* The run of s that holds offset i (0-based, 0 <= i < len(s)).
RunAt(s, i) ==
  CHOOSE k \in 1..Len(s) : s[k].e > i /\ (k = 1 \/ s[k - 1].e <= i)

\* s[i] for 0 <= i < len(s)
BAt(s, i) == s[RunAt(s, i)].b

\* s + t
BCat(s, t) ==
  IF Len(t) = 0 THEN s
  ELSE IF Len(s) = 0 THEN t
  ELSE LET n  == BLen(s)
           sh == Tuple([k \in 1..Len(t) |-> [b |-> t[k].b, e |-> t[k].e + n]])
       IN  IF s[Len(s)].b = t[1].b
           THEN SubSeq(s, 1, Len(s) - 1) \o sh
           ELSE s \o sh

\* s[lo:h] for lo < h <= len(s), where run a holds offset lo and run z
\* offset h - 1.
RunSlice(s, a, z, lo, h) ==
  Tuple([k \in 1..(z - a + 1) |->
           [b |-> s[a + k - 1].b,
            e |-> (IF s[a + k - 1].e > h THEN h ELSE s[a + k - 1].e) - lo]])

\* s[lo:hi] for 0 <= lo, 0 <= hi: Python clamps both ends to len(s).
BSlice(s, lo, hi) ==
  LET n == BLen(s)
      h == IF hi > n THEN n ELSE hi
  IN  IF lo >= h THEN <<>> ELSE RunSlice(s, RunAt(s, lo), RunAt(s, h - 1), lo, h)

\* s[lo:]
BFrom(s, lo) == BSlice(s, lo, BLen(s))

\* b"".join(parts[lo..hi]) for a sequence of byte strings, by halving.
RECURSIVE BJoinRange(_, _, _)
BJoinRange(parts, lo, hi) ==
  IF lo > hi THEN <<>>
  ELSE IF lo = hi THEN parts[lo]
  ELSE LET mid == (lo + hi) \div 2
       IN  BCat(BJoinRange(parts, lo, mid), BJoinRange(parts, mid + 1, hi))

\* b"".join(parts)
BJoin(parts) == BJoinRange(parts, 1, Len(parts))

\* bytes(q) for a sequence q of byte values
Bytes(q) == BJoin([i \in 1..Len(q) |-> Rep(q[i], 1)])

\* s.startswith(p)
StartsWith(s, p) == BSlice(s, 0, BLen(p)) = p

(***************************************************************************)
(* int <-> bytes                                                           *)
(***************************************************************************)

\* Python's None for an optional value, and a present value.
None == [some |-> FALSE]
Some(v) == [some |-> TRUE, v |-> v]

\* A call's outcome: exc = "" and the value v, or the raised exception's
\* class and its str().
Ok(v) == [exc |-> "", msg |-> "", v |-> v]
Raise(cls, msg) == [exc |-> cls, msg |-> msg, v |-> <<>>]

\* The same length written least significant byte first: the byte order
\* _parse_payload does not read.
to_bytes_2_little(n) ==
  IF n >= 65536 THEN Raise("OverflowError", "int too big to convert")
  ELSE Ok(BCat(Rep(n % 256, 1), Rep(n \div 256, 1)))

\* n.to_bytes(2, "big"): OverflowError when n does not fit 16 bits.
to_bytes_2_big(n) ==
  IF n >= 65536 THEN Raise("OverflowError", "int too big to convert")
  ELSE Ok(BCat(Rep(n \div 256, 1), Rep(n % 256, 1)))

\* int.from_bytes(s, "big"); int.from_bytes(b"", ...) is 0.
RECURSIVE from_bytes_big(_)
from_bytes_big(s) ==
  IF BLen(s) = 0 THEN 0
  ELSE from_bytes_big(BSlice(s, 0, BLen(s) - 1)) * 256 + BAt(s, BLen(s) - 1)

\* A push length read from its first byte alone.
from_bytes_misread(s) == IF BLen(s) = 0 THEN 0 ELSE BAt(s, 0)

\* int.from_bytes(s, "little")
RECURSIVE from_bytes_little(_)
from_bytes_little(s) ==
  IF BLen(s) = 0 THEN 0
  ELSE BAt(s, 0) + 256 * from_bytes_little(BFrom(s, 1))

\* str(n), as ASCII digits behind the sign
RECURSIVE Decimal(_)
Decimal(n) ==
  IF n < 0 THEN BCat(Rep(45, 1), Decimal(0 - n))
  ELSE IF n < 10 THEN Rep(48 + n, 1)
  ELSE BCat(Decimal(n \div 10), Rep(48 + (n % 10), 1))

(***************************************************************************)
(* Text.  A Python str is held as its ASCII bytes (the model's strings     *)
(* are printable ASCII, on which str.encode("utf-8") keeps every code).    *)
(***************************************************************************)

S_name == Bytes(<<110, 97, 109, 101>>)
S_data_type == Bytes(<<100, 97, 116, 97, 95, 116, 121, 112, 101>>)
S_description == Bytes(<<100, 101, 115, 99, 114, 105, 112, 116, 105, 111, 110>>)
S_version == Bytes(<<118, 101, 114, 115, 105, 111, 110>>)
S_created_at == Bytes(<<99, 114, 101, 97, 116, 101, 100, 95, 97, 116>>)
S_size_bytes == Bytes(<<115, 105, 122, 101, 95, 98, 121, 116, 101, 115>>)
S_compressed == Bytes(<<99, 111, 109, 112, 114, 101, 115, 115, 101, 100>>)
S_chunk_index == Bytes(<<99, 104, 117, 110, 107, 95, 105, 110, 100, 101, 120>>)
S_total_chunks == Bytes(<<116, 111, 116, 97, 108, 95, 99, 104, 117, 110, 107, 115>>)
S_data_hash == Bytes(<<100, 97, 116, 97, 95, 104, 97, 115, 104>>)
S_custom == Bytes(<<99, 117, 115, 116, 111, 109>>)
\* "1.0"
S_1_0 == Bytes(<<49, 46, 48>>)
S_true == Bytes(<<116, 114, 117, 101>>)
S_false == Bytes(<<102, 97, 108, 115, 101>>)
S_null == Bytes(<<110, 117, 108, 108>>)
\* "Chunk "
S_Chunk == Bytes(<<67, 104, 117, 110, 107, 32>>)
\* ", " and ": " (json.dumps' default separators)
S_comma == Bytes(<<44, 32>>)
S_colon == Bytes(<<58, 32>>)

\* DataType: the enum's members by value.
DataTypeValues ==
  { Bytes(<<114, 97, 119>>),                                   \* raw
    Bytes(<<106, 115, 111, 110>>),                             \* json
    Bytes(<<99, 115, 118>>),                                   \* csv
    Bytes(<<116, 101, 120, 116>>),                             \* text
    Bytes(<<109, 111, 100, 101, 108, 95, 119, 101, 105, 103, 104, 116, 115>>),
    Bytes(<<100, 97, 116, 97, 115, 101, 116>>) }               \* dataset

(***************************************************************************)
(* JSON values (what json.loads returns and json.dumps takes).  One record *)
(* shape for every kind: t the kind, s a str's text, n an int's value or a *)
(* bool's 0/1, o a dict's items in insertion order ([k |-> key, v |->      *)
(* value]) or a list's elements (k empty).                                 *)
(***************************************************************************)

JStr(s) == [t |-> "str", s |-> s, n |-> 0, o |-> <<>>]
JInt(n) == [t |-> "int", s |-> <<>>, n |-> n, o |-> <<>>]
JBool(b) == [t |-> "bool", s |-> <<>>, n |-> IF b THEN 1 ELSE 0, o |-> <<>>]
JNull == [t |-> "null", s |-> <<>>, n |-> 0, o |-> <<>>]
JObj(items) == [t |-> "dict", s |-> <<>>, n |-> 0, o |-> items]
JList(elems) == [t |-> "list", s |-> <<>>, n |-> 0, o |-> elems]
Item(k, v) == [k |-> k, v |-> v]

\* The truth value Python gives a JSON value (`if x`).
Truthy(v) ==
  CASE v.t = "str"  -> BLen(v.s) > 0
    [] v.t = "int"  -> v.n # 0
    [] v.t = "bool" -> v.n = 1
    [] v.t = "null" -> FALSE
    [] OTHER        -> Len(v.o) > 0

\* key in d
HasKey(d, key) == \E i \in 1..Len(d.o) : d.o[i].k = key

\* d[key] for a key d holds (a repeated key keeps its last value)
Lookup(d, key) ==
  LET i == CHOOSE j \in 1..Len(d.o) :
             d.o[j].k = key /\ \A h \in (j + 1)..Len(d.o) : d.o[h].k # key
  IN  d.o[i].v

\* d.get(key, default)
DictGet(d, key, default) == IF HasKey(d, key) THEN Lookup(d, key) ELSE default

\* One run of a str as json.dumps writes it inside quotes: a quote or a
\* backslash is written behind a backslash.
EscapeRun(b, n) ==
  IF b = 34 \/ b = 92
  THEN BJoin([i \in 1..n |-> BCat(Rep(92, 1), Rep(b, 1))])
  ELSE Rep(b, n)

\* json.dumps of a str
DumpStr(s) ==
  LET body == IF \E k \in 1..Len(s) : s[k].b \in {34, 92}
              THEN BJoin([k \in 1..Len(s) |->
                            EscapeRun(s[k].b,
                                      s[k].e - (IF k = 1 THEN 0 ELSE s[k - 1].e))])
              ELSE s
  IN  BCat(Rep(34, 1), BCat(body, Rep(34, 1)))

\* json.dumps(v) with the default separators and ensure_ascii
RECURSIVE json_dumps(_)
json_dumps(v) ==
  CASE v.t = "str"  -> DumpStr(v.s)
    [] v.t = "int"  -> Decimal(v.n)
    [] v.t = "bool" -> IF v.n = 1 THEN S_true ELSE S_false
    [] v.t = "null" -> S_null
    [] v.t = "dict" ->
         BCat(Rep(123, 1),
              BCat(BJoin([i \in 1..Len(v.o) |->
                            BCat(IF i = 1 THEN <<>> ELSE S_comma,
                                 BCat(DumpStr(v.o[i].k),
                                      BCat(S_colon, json_dumps(v.o[i].v))))]),
                   Rep(125, 1)))
    [] OTHER ->
         BCat(Rep(91, 1),
              BCat(BJoin([i \in 1..Len(v.o) |->
                            BCat(IF i = 1 THEN <<>> ELSE S_comma,
                                 json_dumps(v.o[i].v))]),
                   Rep(93, 1)))

(***************************************************************************)
(* json.loads: a recursive-descent reader of the JSON text.  A cursor is   *)
(* [k |-> run, p |-> offset]; k = Len(s) + 1 at the end of the text.       *)
(* Numbers are integers and strings carry no \u escape: the model's texts  *)
(* hold neither a float nor a non-ASCII character.                         *)
(***************************************************************************)

CursorAt(s, p) == [k |-> IF p >= BLen(s) THEN Len(s) + 1 ELSE RunAt(s, p), p |-> p]
AtEnd(s, c) == c.k > Len(s)
Peek(s, c) == s[c.k].b
Adv(s, c) == [k |-> IF c.p + 1 >= s[c.k].e THEN c.k + 1 ELSE c.k, p |-> c.p + 1]
NextRun(s, c) == [k |-> c.k + 1, p |-> s[c.k].e]
Is(s, c, b) == ~AtEnd(s, c) /\ Peek(s, c) = b

Parsed(v, c) == [ok |-> TRUE, v |-> v, c |-> c]
NoParse(c) == [ok |-> FALSE, v |-> JNull, c |-> c]

\* JSON whitespace: space, \t, \n, \r
RECURSIVE SkipWs(_, _)
SkipWs(s, c) ==
  IF ~AtEnd(s, c) /\ Peek(s, c) \in {32, 9, 10, 13}
  THEN SkipWs(s, NextRun(s, c))
  ELSE c

\* The character a backslash escape stands for; -1 for none.
Unescape(b) ==
  CASE b = 34 -> 34 [] b = 92 -> 92 [] b = 47 -> 47
    [] b = 98 -> 8 [] b = 102 -> 12 [] b = 110 -> 10
    [] b = 114 -> 13 [] b = 116 -> 9 [] OTHER -> -1

\* The rest of a string: st.c the cursor, behind the opening quote at
\* first, st.acc the text read so far.
\* The characters up to the next quote, backslash or control character are
\* taken as they are.
RECURSIVE ScanStr(_, _)
ScanStr(s, st) ==
  LET Special(k) == s[k].b = 34 \/ s[k].b = 92 \/ s[k].b < 32 IN
  IF ~\E k \in st.c.k..Len(s) : Special(k) THEN NoParse(CursorAt(s, BLen(s)))
  ELSE Let(CHOOSE k \in st.c.k..Len(s) :
             Special(k) /\ \A j \in st.c.k..(k - 1) : ~Special(j), LAMBDA stop :
       Let(IF stop = st.c.k THEN st.c ELSE [k |-> stop, p |-> s[stop - 1].e], LAMBDA c :
       Let(IF stop = st.c.k THEN st.acc
           ELSE BCat(st.acc, RunSlice(s, st.c.k, stop - 1, st.c.p, c.p)), LAMBDA acc :
         IF Peek(s, c) = 34 THEN Parsed(JStr(acc), Adv(s, c))
         ELSE IF Peek(s, c) = 92 THEN
           Let(Adv(s, c), LAMBDA c1 :
             IF AtEnd(s, c1) \/ Unescape(Peek(s, c1)) < 0 THEN NoParse(c)
             ELSE Let([c |-> Adv(s, c1),
                       acc |-> BCat(acc, Rep(Unescape(Peek(s, c1)), 1))], LAMBDA st1 :
                    ScanStr(s, st1)))
         ELSE NoParse(c))))

\* A string whose opening quote is at c.
ParseString(s, c) == Let([c |-> Adv(s, c), acc |-> <<>>], LAMBDA st : ScanStr(s, st))

\* The digits of a number, acc its value so far.
RECURSIVE ScanDigits(_, _)
ScanDigits(s, st) ==
  IF ~AtEnd(s, st.c) /\ Peek(s, st.c) \in 48..57
  THEN ScanDigits(s, [c |-> Adv(s, st.c), acc |-> st.acc * 10 + (Peek(s, st.c) - 48)])
  ELSE Parsed(JInt(st.acc), st.c)

\* An integer: "0", or a digit 1-9 and more digits; c at its first digit.
ParseNat(s, c) ==
  IF AtEnd(s, c) \/ Peek(s, c) \notin 48..57 THEN NoParse(c)
  ELSE IF Peek(s, c) = 48 THEN Parsed(JInt(0), Adv(s, c))
  ELSE ScanDigits(s, [c |-> c, acc |-> 0])

ParseNumber(s, c) ==
  IF Is(s, c, 45)
  THEN Let(ParseNat(s, Adv(s, c)), LAMBDA r :
         IF r.ok THEN Parsed(JInt(0 - r.v.n), r.c) ELSE r)
  ELSE ParseNat(s, c)

\* The literal `word` standing for value v at c.
ParseWord(s, c, word, v) ==
  IF BSlice(s, c.p, c.p + BLen(word)) = word
  THEN Parsed(v, CursorAt(s, c.p + BLen(word)))
  ELSE NoParse(c)

RECURSIVE ParseValue(_, _)
RECURSIVE ParseMembers(_, _)
RECURSIVE ParseElements(_, _)

\* One member of an object, its key at c: the item, and the cursor behind
\* the value and the whitespace after it.
ParseMember(s, c) ==
  IF ~Is(s, c, 34) THEN NoParse(c)
  ELSE Let(ParseString(s, c), LAMBDA key :
    IF ~key.ok THEN key
    ELSE Let(SkipWs(s, key.c), LAMBDA c1 :
      IF ~Is(s, c1, 58) THEN NoParse(c1)
      ELSE Let(ParseValue(s, SkipWs(s, Adv(s, c1))), LAMBDA val :
        IF ~val.ok THEN val
        ELSE Parsed(Item(key.v.s, val.v), SkipWs(s, val.c)))))

\* One element of an array at c, and the cursor behind it.
ParseElement(s, c) ==
  Let(ParseValue(s, c), LAMBDA val :
    IF ~val.ok THEN val ELSE Parsed(Item(<<>>, val.v), SkipWs(s, val.c)))

\* The members of an object: st.c at a key, st.acc the items read so far.
ParseMembers(s, st) ==
  Let(ParseMember(s, st.c), LAMBDA m :
    IF ~m.ok THEN m
    ELSE IF Is(s, m.c, 125) THEN Parsed(JObj(Append(st.acc, m.v)), Adv(s, m.c))
    ELSE IF Is(s, m.c, 44)
    THEN ParseMembers(s, [c |-> SkipWs(s, Adv(s, m.c)), acc |-> Append(st.acc, m.v)])
    ELSE NoParse(m.c))

\* The elements of an array: st.c at an element.
ParseElements(s, st) ==
  Let(ParseElement(s, st.c), LAMBDA m :
    IF ~m.ok THEN m
    ELSE IF Is(s, m.c, 93) THEN Parsed(JList(Append(st.acc, m.v)), Adv(s, m.c))
    ELSE IF Is(s, m.c, 44)
    THEN ParseElements(s, [c |-> SkipWs(s, Adv(s, m.c)), acc |-> Append(st.acc, m.v)])
    ELSE NoParse(m.c))

\* A collection opened at c with the bracket that closes it.
AfterOpen(s, c, close) ==
  Let(SkipWs(s, Adv(s, c)), LAMBDA c1 :
    IF Is(s, c1, close) THEN [empty |-> TRUE, c |-> Adv(s, c1)]
    ELSE [empty |-> FALSE, c |-> c1])

ParseValue(s, c) ==
  IF AtEnd(s, c) THEN NoParse(c)
  ELSE Let(Peek(s, c), LAMBDA b :
    CASE b = 34  -> ParseString(s, c)
      [] b = 123 -> Let(AfterOpen(s, c, 125), LAMBDA o :
                      IF o.empty THEN Parsed(JObj(<<>>), o.c)
                      ELSE ParseMembers(s, [c |-> o.c, acc |-> <<>>]))
      [] b = 91  -> Let(AfterOpen(s, c, 93), LAMBDA o :
                      IF o.empty THEN Parsed(JList(<<>>), o.c)
                      ELSE ParseElements(s, [c |-> o.c, acc |-> <<>>]))
      [] b = 116 -> ParseWord(s, c, S_true, JBool(TRUE))
      [] b = 102 -> ParseWord(s, c, S_false, JBool(FALSE))
      [] b = 110 -> ParseWord(s, c, S_null, JNull)
      [] OTHER   -> ParseNumber(s, c))

\* json.loads(text): JSONDecodeError (a ValueError) unless the text is one
\* JSON value, whitespace around it allowed.
json_loads(text) ==
  Let(ParseValue(text, SkipWs(text, CursorAt(text, 0))), LAMBDA r :
    IF r.ok /\ AtEnd(text, SkipWs(text, r.c)) THEN Ok(r.v)
    ELSE Raise("JSONDecodeError", "Expecting value"))

\* raw.decode("utf-8"): the model's payloads hold ASCII and the byte 0xFF,
\* which no UTF-8 sequence contains; a byte over 0x7F raises.
decode_utf8(raw) ==
  IF \E k \in 1..Len(raw) : raw[k].b >= 128
  THEN Raise("UnicodeDecodeError", "'utf-8' codec can't decode byte")
  ELSE Ok(raw)

\* The exception classes `except ValueError` catches.
IsValueError(exc) == exc \in {"ValueError", "JSONDecodeError", "UnicodeDecodeError"}

(***************************************************************************)
(* hashlib.sha256 and zlib, the two library codecs.  Both are computed     *)
(* from the bytes: the digest from the length and two checksums (the byte  *)
(* sum and the position-weighted byte sum, modulo the prime 257, so that   *)
(* changing one byte changes the digest), the zlib stream as a header, one *)
(* record per run of equal bytes (the byte, then its count as 255s and a   *)
(* final byte under 255), an end record and a checksum trailer.            *)
(***************************************************************************)

\* n * (n + 1) / 2 modulo 257, without leaving 32 bits
TriMod(n) == (((n % 514) * ((n + 1) % 514)) \div 2) % 257

\* [n |-> length, s |-> byte sum, w |-> sum of (length - offset) * byte]
\* of the runs lo..hi of d, the sums modulo 257.
RECURSIVE SumRange(_, _, _)
SumRange(d, lo, hi) ==
  IF lo > hi THEN [n |-> 0, s |-> 0, w |-> 0]
  ELSE IF lo = hi
  THEN LET n == d[lo].e - (IF lo = 1 THEN 0 ELSE d[lo - 1].e)
           b == d[lo].b % 257
       IN  [n |-> n, s |-> ((n % 257) * b) % 257, w |-> (b * TriMod(n)) % 257]
  ELSE LET mid == (lo + hi) \div 2
           x   == SumRange(d, lo, mid)
           y   == SumRange(d, mid + 1, hi)
       IN  [n |-> x.n + y.n,
            s |-> (x.s + y.s) % 257,
            w |-> (x.w + (y.n % 257) * x.s + y.w) % 257]

Checksum(d) == SumRange(d, 1, Len(d))

\* n as `width` lowercase hexadecimal digits
RECURSIVE Hex(_, _)
Hex(n, width) ==
  IF width = 0 THEN <<>>
  ELSE LET h == n % 16
       IN  BCat(Hex(n \div 16, width - 1), Rep(IF h < 10 THEN 48 + h ELSE 87 + h, 1))

\* hashlib.sha256(d).hexdigest(): 64 hexadecimal digits
sha256_hexdigest(d) ==
  Let(Checksum(d), LAMBDA c :
    BCat(Hex(c.n, 8), BCat(Hex(c.s, 4), BCat(Hex(c.w, 4), Rep(101, 48)))))

\* The zlib stream's 2-byte header (0x78 0xDA at level 9)
ZHeader == BCat(Rep(120, 1), Rep(218, 1))

\* The stream's end: the end record and the 4-byte checksum of the data
ZTrailer(c) ==
  BCat(Rep(0, 2),
       BCat(Rep(c.s \div 256, 1),
            BCat(Rep(c.s % 256, 1), BCat(Rep(c.w \div 256, 1), Rep(c.w % 256, 1)))))

\* zlib.compress(d, level=9)
zlib_compress(d) ==
  BCat(ZHeader,
       BCat(BJoin([k \in 1..Len(d) |->
                     LET n == d[k].e - (IF k = 1 THEN 0 ELSE d[k - 1].e)
                     IN  BCat(Rep(d[k].b, 1),
                              BCat(Rep(255, n \div 255), Rep(n % 255, 1)))]),
            ZTrailer(Checksum(d))))

\* The record at cursor c: its byte b, its count n and the cursors at its
\* last count byte (c2) and behind it (c3); ok = FALSE when the stream ends
\* inside it.
InflateRecord(z, c) ==
  IF AtEnd(z, c) \/ AtEnd(z, Adv(z, c)) THEN [ok |-> FALSE]
  ELSE Let(Adv(z, c), LAMBDA c1 :
       Let(IF Peek(z, c1) = 255 THEN z[c1.k].e - c1.p ELSE 0, LAMBDA q :
       Let(IF q > 0 THEN NextRun(z, c1) ELSE c1, LAMBDA c2 :
         IF AtEnd(z, c2) THEN [ok |-> FALSE]
         ELSE [ok |-> TRUE, b |-> Peek(z, c), n |-> 255 * q + Peek(z, c2),
               c2 |-> c2, c3 |-> Adv(z, c2)])))

\* The records of a stream from cursor st.c on, st.acc the data so far: the
\* data when the end record and a matching trailer follow, else zlib.error.
RECURSIVE Inflate(_, _)
Inflate(z, st) ==
  Let(InflateRecord(z, st.c), LAMBDA r :
    IF ~r.ok THEN Raise("zlib.error", "incomplete or truncated stream")
    ELSE IF r.n > 0 THEN Inflate(z, [c |-> r.c3, acc |-> BCat(st.acc, Rep(r.b, r.n))])
    ELSE IF r.b # 0 THEN Raise("zlib.error", "invalid stored block lengths")
    ELSE IF BLen(z) - r.c3.p < 4
    THEN Raise("zlib.error", "incomplete or truncated stream")
    ELSE IF BSlice(z, r.c2.p - 1, r.c3.p + 4) # ZTrailer(Checksum(st.acc))
    THEN Raise("zlib.error", "incorrect data check")
    ELSE Ok(st.acc))

\* zlib.decompress(z)
zlib_decompress(z) ==
  IF BLen(z) < 2 THEN Raise("zlib.error", "incomplete or truncated stream")
  ELSE IF BSlice(z, 0, 2) # ZHeader THEN Raise("zlib.error", "incorrect header check")
  ELSE Inflate(z, [c |-> CursorAt(z, 2), acc |-> <<>>])

(***************************************************************************)
(* storage.py: DataMetadata                                                *)
(***************************************************************************)

\* DataMetadata(...): every field holds the JSON value it is written as,
\* data_type the enum member's value.
DataMetadata(name, data_type, description, version, created_at, size_bytes, compressed, chunk_index, total_chunks, data_hash, custom) ==
  [name |-> name, data_type |-> data_type, description |-> description,
   version |-> version, created_at |-> created_at, size_bytes |-> size_bytes,
   compressed |-> compressed, chunk_index |-> chunk_index,
   total_chunks |-> total_chunks, data_hash |-> data_hash, custom |-> custom]

\* DataMetadata.to_dict
to_dict(m) ==
  JObj(<< Item(S_name, m.name),
          Item(S_data_type, JStr(m.data_type)),
          Item(S_description, m.description),
          Item(S_version, m.version),
          Item(S_created_at, m.created_at),
          Item(S_size_bytes, m.size_bytes),
          Item(S_compressed, m.compressed),
          Item(S_chunk_index, m.chunk_index),
          Item(S_total_chunks, m.total_chunks),
          Item(S_data_hash, m.data_hash),
          Item(S_custom, m.custom) >>)

\* DataType(value): the member with that value, else ValueError.
DataTypeOf(value) ==
  IF value.t = "str" /\ value.s \in DataTypeValues
  THEN Ok(value.s)
  ELSE Raise("ValueError", "is not a valid DataType")

\* DataMetadata.from_dict(data); now is datetime.utcnow().isoformat().
\* data["name"] on a value that is no dict is a TypeError, on a dict
\* without the key a KeyError.
from_dict(data, now) ==
  IF data.t # "dict" THEN Raise("TypeError", "indices must be integers")
  ELSE IF ~HasKey(data, S_name) THEN Raise("KeyError", "'name'")
  ELSE IF ~HasKey(data, S_data_type) THEN Raise("KeyError", "'data_type'")
  ELSE Let(DataTypeOf(Lookup(data, S_data_type)), LAMBDA dt :
    IF dt.exc # "" THEN dt
    ELSE Ok(DataMetadata(
           Lookup(data, S_name),
           dt.v,
           DictGet(data, S_description, JStr(<<>>)),
           DictGet(data, S_version, JStr(S_1_0)),
           DictGet(data, S_created_at, JStr(now)),
           DictGet(data, S_size_bytes, JInt(0)),
           DictGet(data, S_compressed, JBool(FALSE)),
           DictGet(data, S_chunk_index, JNull),
           DictGet(data, S_total_chunks, JNull),
           DictGet(data, S_data_hash, JStr(<<>>)),
           DictGet(data, S_custom, JObj(<<>>)))))

\* DataMetadata.to_json
to_json(m) == json_dumps(to_dict(m))

(***************************************************************************)
(* storage.py: DatasetStorage's codec                                      *)
(***************************************************************************)

\* b"bsvllm", the prefix in lower case
PROTOCOL_PREFIX_lower == Bytes(<<98, 115, 118, 108, 108, 109>>)

\* b"BSVLLM"
PROTOCOL_PREFIX == Bytes(<<66, 83, 86, 76, 76, 77>>)

MAX_CHUNK_SIZE == 90000

\* A _prepare_data that compresses and reports that it did not.
prepare_data_unflagged(data, compress) ==
  IF compress /\ BLen(data) > 1000
  THEN Let(zlib_compress(data), LAMBDA compressed :
         IF 10 * BLen(compressed) < 9 * BLen(data)
         THEN <<compressed, FALSE>>
         ELSE <<data, FALSE>>)
  ELSE <<data, FALSE>>

\* A _prepare_data that compresses whenever the stream is shorter at all.
prepare_data_any_saving(data, compress) ==
  IF compress /\ BLen(data) > 1000
  THEN Let(zlib_compress(data), LAMBDA compressed :
         IF BLen(compressed) < BLen(data)
         THEN <<compressed, TRUE>>
         ELSE <<data, FALSE>>)
  ELSE <<data, FALSE>>

\* DatasetStorage._prepare_data for bytes: <<prepared, was_compressed>>.
\* len(compressed) < len(data) * 0.9 is compared in tenths.
prepare_data(data, compress) ==
  IF compress /\ BLen(data) > 1000
  THEN Let(zlib_compress(data), LAMBDA compressed :
         IF 10 * BLen(compressed) < 9 * BLen(data)
         THEN <<compressed, TRUE>>
         ELSE <<data, FALSE>>)
  ELSE <<data, FALSE>>

\* DatasetStorage._create_storage_payload
create_storage_payload(data, metadata) ==
  Let(to_json(metadata), LAMBDA metadata_bytes :
  Let(to_bytes_2_big(BLen(metadata_bytes)), LAMBDA metadata_length :
    IF metadata_length.exc # "" THEN metadata_length
    ELSE Ok(BCat(PROTOCOL_PREFIX,
                 BCat(metadata_length.v, BCat(metadata_bytes, data))))))

\* DatasetStorage._parse_payload / DatasetRetrieval._parse_payload (the two
\* have the same body): Ok(<<metadata, data>>) or the exception raised.
parse_payload(payload, now) ==
  IF ~StartsWith(payload, PROTOCOL_PREFIX)
  THEN Raise("ValueError", "Invalid payload: missing protocol prefix")
  ELSE Let(BLen(PROTOCOL_PREFIX), LAMBDA offset :
       Let(from_bytes_big(BSlice(payload, offset, offset + 2)), LAMBDA metadata_length :
       Let(decode_utf8(BSlice(payload, offset + 2, offset + 2 + metadata_length)),
           LAMBDA text :
         IF text.exc # "" THEN text
         ELSE Let(json_loads(text.v), LAMBDA metadata_dict :
           IF metadata_dict.exc # "" THEN metadata_dict
           ELSE Let(from_dict(metadata_dict.v, now), LAMBDA metadata :
             IF metadata.exc # "" THEN metadata
             ELSE Ok(<<metadata.v,
                       BFrom(payload, offset + 2 + metadata_length)>>))))))

\* A _chunk_data that makes one slice per whole MAX_CHUNK_SIZE bytes and
\* drops what is left.
chunk_data_whole(data) ==
  Tuple([k \in 1..(BLen(data) \div MAX_CHUNK_SIZE) |->
           BSlice(data, (k - 1) * MAX_CHUNK_SIZE, k * MAX_CHUNK_SIZE)])

\* DatasetStorage._chunk_data: one slice per i of
\* range(0, len(data), MAX_CHUNK_SIZE), which has ceil(len / MAX) values.
chunk_data(data) ==
  Tuple([k \in 1..((BLen(data) + MAX_CHUNK_SIZE - 1) \div MAX_CHUNK_SIZE) |->
           BSlice(data, (k - 1) * MAX_CHUNK_SIZE, k * MAX_CHUNK_SIZE)])

(***************************************************************************)
(* The transport: what BSVClient.store_data puts on the chain and what     *)
(* get_raw_transaction(txid, verbose=True) hands back.  A decoded          *)
(* transaction is None (a null RPC result) or its "vout" list; an output   *)
(* is its scriptPubKey: asm, the assembly text as its words ("" when the   *)
(* key is absent), and hex, held as the bytes the text spells (ok = FALSE  *)
(* for a text that is not hexadecimal; the empty text when absent).        *)
(***************************************************************************)

HexText(raw) == [ok |-> TRUE, raw |-> raw]
BadHexText == [ok |-> FALSE, raw |-> <<>>]
Vout(asm, hex) == [scriptPubKey |-> [asm |-> asm, hex |-> hex]]

\* n as `width` bytes, little-endian
RECURSIVE to_bytes_little(_, _)
to_bytes_little(n, width) ==
  IF width = 0 THEN <<>>
  ELSE BCat(Rep(n % 256, 1), to_bytes_little(n \div 256, width - 1))

\* The push of `data` in one of the four forms of a script's data push.
PushData(form, data) ==
  CASE form = "direct"    -> BCat(Rep(BLen(data), 1), data)
    [] form = "PUSHDATA1" -> BCat(Rep(76, 1), BCat(Rep(BLen(data), 1), data))
    [] form = "PUSHDATA2" -> BCat(Rep(77, 1), BCat(to_bytes_little(BLen(data), 2), data))
    [] OTHER              -> BCat(Rep(78, 1), BCat(to_bytes_little(BLen(data), 4), data))

\* The forms that can carry a push of n bytes.
PushForms(n) ==
  {f \in {"direct", "PUSHDATA1", "PUSHDATA2", "PUSHDATA4"} :
     \/ f = "PUSHDATA4"
     \/ f = "PUSHDATA2" /\ n <= 65535
     \/ f = "PUSHDATA1" /\ n <= 255
     \/ f = "direct" /\ n < 76}

\* Script.write_push_data: the shortest form.
MinimalForm(n) ==
  IF n < 76 THEN "direct"
  ELSE IF n <= 255 THEN "PUSHDATA1"
  ELSE IF n <= 65535 THEN "PUSHDATA2"
  ELSE "PUSHDATA4"

\* OP_FALSE OP_RETURN <push>
OpReturnScript(form, data) == BCat(Rep(0, 1), BCat(Rep(106, 1), PushData(form, data)))

\* BSVClient.create_op_return_output(data): the locking script
create_op_return_output(data) == OpReturnScript(MinimalForm(BLen(data)), data)

\* The two ways a node writes the script's assembly.
AsmForms == { <<"0", "OP_RETURN", "data">>, <<"OP_FALSE", "OP_RETURN", "data">> }

\* A P2PKH output, as the change output of store_data's transaction:
\* OP_DUP OP_HASH160 <20 bytes> OP_EQUALVERIFY OP_CHECKSIG
ChangeOutput ==
  Vout(<<"OP_DUP", "OP_HASH160", "data", "OP_EQUALVERIFY", "OP_CHECKSIG">>,
       HexText(BCat(Rep(118, 1), BCat(Rep(169, 1), BCat(Rep(20, 1),
               BCat(Rep(17, 20), BCat(Rep(136, 1), Rep(172, 1))))))))

\* The decoded transaction store_data broadcasts for `data`: the OP_RETURN
\* output, then the change output.
StoredTx(data, asm) ==
  Some(<< Vout(asm, HexText(create_op_return_output(data))), ChangeOutput >>)

(***************************************************************************)
(* retrieval.py                                                            *)
(***************************************************************************)

\* "OP_FALSE OP_RETURN" in asm or asm.startswith("0 OP_RETURN")
AsmMatches(asm) ==
  \/ \E i \in 1..(Len(asm) - 1) : asm[i] = "OP_FALSE" /\ asm[i + 1] = "OP_RETURN"
  \/ Len(asm) >= 2 /\ asm[1] = "0" /\ asm[2] = "OP_RETURN"

\* A pass that ends the loop with an exception where the code goes on.
Fatal == [act |-> "raise", r |-> Raise("ValueError", "unrecognized script")]

\* What one pass of the loop over the outputs does: go on to the next
\* output, return a value, or raise.
Continue == [act |-> "continue", r |-> Ok(None)]
Return(v) == [act |-> "return", r |-> Ok(Some(v))]
Raises(cls, msg) == [act |-> "raise", r |-> Raise(cls, msg)]

\* The body of _extract_op_return_data's loop for one output.
ExtractFromVout(vout) ==
  LET asm == vout.scriptPubKey.asm
      hex_data == vout.scriptPubKey.hex
  IN
  IF ~AsmMatches(asm) THEN Continue
  ELSE IF hex_data.ok /\ BLen(hex_data.raw) = 0 THEN Continue
  ELSE IF ~hex_data.ok
  THEN Raises("ValueError", "non-hexadecimal number found in fromhex() arg")
  ELSE LET raw_bytes == hex_data.raw IN
    IF ~(BLen(raw_bytes) > 2 /\ BAt(raw_bytes, 0) = 0 /\ BAt(raw_bytes, 1) = 106)
    THEN Continue
    ELSE LET idx == 2
             op  == BAt(raw_bytes, idx)
         IN
      IF op < 76
      THEN Return(BSlice(raw_bytes, idx + 1, idx + 1 + op))
      ELSE IF op = 76
      THEN IF idx + 1 >= BLen(raw_bytes)
           THEN Raises("IndexError", "index out of range")
           ELSE Return(BSlice(raw_bytes, idx + 2, idx + 2 + BAt(raw_bytes, idx + 1)))
      ELSE IF op = 77
      THEN Return(BSlice(raw_bytes, idx + 3,
                         idx + 3 + from_bytes_little(BSlice(raw_bytes, idx + 1, idx + 3))))
      ELSE IF op = 78
      THEN Return(BSlice(raw_bytes, idx + 5,
                         idx + 5 + from_bytes_little(BSlice(raw_bytes, idx + 1, idx + 5))))
      ELSE Continue

\* DatasetRetrieval._extract_op_return_data(tx_data): Ok(Some(payload)),
\* Ok(None), or the exception raised.  The loop ends at the first output
\* that returns or raises.
extract_op_return_data(tx_data) ==
  IF ~tx_data.some
  THEN Raise("AttributeError", "'NoneType' object has no attribute 'get'")
  ELSE Let(Tuple([i \in 1..Len(tx_data.v) |-> ExtractFromVout(tx_data.v[i])]),
           LAMBDA passes :
         IF \A i \in 1..Len(passes) : passes[i].act = "continue" THEN Ok(None)
         ELSE passes[CHOOSE i \in 1..Len(passes) :
                       /\ passes[i].act # "continue"
                       /\ \A j \in 1..(i - 1) : passes[j].act = "continue"].r)

\* A result that carries data and metadata only when it succeeds.
RetrievalResultBare(success, data, metadata, error, verified) ==
  [success |-> success, data |-> IF success THEN data ELSE None,
   metadata |-> IF success THEN metadata ELSE None,
   error |-> error, verified |-> verified]

\* RetrievalResult
RetrievalResult(success, data, metadata, error, verified) ==
  [success |-> success, data |-> data, metadata |-> metadata,
   error |-> error, verified |-> verified]

\* computed_hash == metadata.data_hash, a str against the stored value
HashEquals(computed_hash, stored) == stored.t = "str" /\ stored.s = computed_hash

\* A get that inflates whatever begins like a zlib stream, whatever the
\* metadata says.
get_guessing(fetched, verify, now) ==
  IF fetched.exc # ""
  THEN RetrievalResult(FALSE, None, None, Some(<<fetched.msg>>), FALSE)
  ELSE Let(extract_op_return_data(fetched.v), LAMBDA payload :
    IF payload.exc # ""
    THEN RetrievalResult(FALSE, None, None, Some(<<payload.msg>>), FALSE)
    ELSE IF ~payload.v.some \/ BLen(payload.v.v) = 0
    THEN RetrievalResult(FALSE, None, None,
                         Some(<<"No OP_RETURN data found in transaction">>), FALSE)
    ELSE Let(parse_payload(payload.v.v, now), LAMBDA parsed :
      IF IsValueError(parsed.exc)
      THEN RetrievalResult(FALSE, None, None,
                           Some(<<"Failed to parse payload: ", parsed.msg>>), FALSE)
      ELSE IF parsed.exc # ""
      THEN RetrievalResult(FALSE, None, None, Some(<<parsed.msg>>), FALSE)
      ELSE Let(IF StartsWith(parsed.v[2], ZHeader)
               THEN zlib_decompress(parsed.v[2])
               ELSE Ok(parsed.v[2]), LAMBDA data :
        IF data.exc # ""
        THEN RetrievalResult(FALSE, None, None,
                             Some(<<"Decompression failed: ", data.msg>>), FALSE)
        ELSE LET metadata == parsed.v[1] IN
          IF verify /\ Truthy(metadata.data_hash)
          THEN IF HashEquals(sha256_hexdigest(data.v), metadata.data_hash)
               THEN RetrievalResult(TRUE, Some(data.v), Some(metadata), None, TRUE)
               ELSE RetrievalResult(FALSE, Some(data.v), Some(metadata),
                                    Some(<<"Data hash verification failed">>), FALSE)
          ELSE RetrievalResult(TRUE, Some(data.v), Some(metadata), None, FALSE))))

\* DatasetRetrieval.get(txid, verify): `fetched` is the outcome of
\* client.get_raw_transaction(txid, verbose=True).  An error is the parts
\* its text is made of.
get(fetched, verify, now) ==
  IF fetched.exc # ""
  THEN RetrievalResult(FALSE, None, None, Some(<<fetched.msg>>), FALSE)
  ELSE Let(extract_op_return_data(fetched.v), LAMBDA payload :
    IF payload.exc # ""
    THEN RetrievalResult(FALSE, None, None, Some(<<payload.msg>>), FALSE)
    ELSE IF ~payload.v.some \/ BLen(payload.v.v) = 0
    THEN RetrievalResult(FALSE, None, None,
                         Some(<<"No OP_RETURN data found in transaction">>), FALSE)
    ELSE Let(parse_payload(payload.v.v, now), LAMBDA parsed :
      IF IsValueError(parsed.exc)
      THEN RetrievalResult(FALSE, None, None,
                           Some(<<"Failed to parse payload: ", parsed.msg>>), FALSE)
      ELSE IF parsed.exc # ""
      THEN RetrievalResult(FALSE, None, None, Some(<<parsed.msg>>), FALSE)
      ELSE Let(IF Truthy(parsed.v[1].compressed)
               THEN zlib_decompress(parsed.v[2])
               ELSE Ok(parsed.v[2]), LAMBDA data :
        IF data.exc # ""
        THEN RetrievalResult(FALSE, None, None,
                             Some(<<"Decompression failed: ", data.msg>>), FALSE)
        ELSE LET metadata == parsed.v[1] IN
          IF verify /\ Truthy(metadata.data_hash)
          THEN IF HashEquals(sha256_hexdigest(data.v), metadata.data_hash)
               THEN RetrievalResult(TRUE, Some(data.v), Some(metadata), None, TRUE)
               ELSE RetrievalResult(FALSE, Some(data.v), Some(metadata),
                                    Some(<<"Data hash verification failed">>), FALSE)
          ELSE RetrievalResult(TRUE, Some(data.v), Some(metadata), None, FALSE))))

\* A get_chunked that fetches every chunk before it looks at any result.
get_chunked_eager(fetched, verify, now) ==
  Let(Tuple([i \in 1..Len(fetched) |-> get(fetched[i], FALSE, now)]), LAMBDA results :
    IF \E i \in 1..Len(results) : ~results[i].success
    THEN Let(CHOOSE k \in 1..Len(results) :
               ~results[k].success /\ \A j \in 1..(k - 1) : results[j].success,
             LAMBDA i :
           [fetches |-> Len(fetched),
            result  |-> RetrievalResult(FALSE, None, None,
                          Some(<<"Failed to retrieve chunk ", ToString(i), ": ">>
                               \o results[i].error.v), FALSE)])
    ELSE Let(BJoin([i \in 1..Len(results) |-> results[i].data.v]), LAMBDA reassembled :
         LET metadata      == IF Len(results) = 0 THEN None ELSE results[1].metadata
             expected_hash == IF metadata.some THEN Some(metadata.v.data_hash) ELSE None
         IN  [fetches |-> Len(fetched),
              result  |->
                IF verify /\ expected_hash.some /\ Truthy(expected_hash.v)
                THEN IF HashEquals(sha256_hexdigest(reassembled), expected_hash.v)
                     THEN RetrievalResult(TRUE, Some(reassembled), metadata, None, TRUE)
                     ELSE RetrievalResult(FALSE, Some(reassembled), metadata,
                            Some(<<"Reassembled data hash verification failed">>), FALSE)
                ELSE RetrievalResult(TRUE, Some(reassembled), metadata, None, FALSE)]))

\* DatasetRetrieval.get_chunked(chunk_txids, verify): fetched[i] is the
\* outcome of fetching chunk_txids[i]; fetches is how many were asked for,
\* the loop ending at the first chunk whose get fails.
get_chunked(fetched, verify, now) ==
  Let(Tuple([i \in 1..Len(fetched) |-> get(fetched[i], FALSE, now)]), LAMBDA results :
    IF \E i \in 1..Len(results) : ~results[i].success
    THEN Let(CHOOSE k \in 1..Len(results) :
               ~results[k].success /\ \A j \in 1..(k - 1) : results[j].success,
             LAMBDA i :
           [fetches |-> i,
            result  |-> RetrievalResult(FALSE, None, None,
                          Some(<<"Failed to retrieve chunk ", ToString(i), ": ">>
                               \o results[i].error.v), FALSE)])
    ELSE Let(BJoin([i \in 1..Len(results) |-> results[i].data.v]), LAMBDA reassembled :
         LET metadata      == IF Len(results) = 0 THEN None ELSE results[1].metadata
             expected_hash == IF metadata.some THEN Some(metadata.v.data_hash) ELSE None
         IN  [fetches |-> Len(fetched),
              result  |->
                IF verify /\ expected_hash.some /\ Truthy(expected_hash.v)
                THEN IF HashEquals(sha256_hexdigest(reassembled), expected_hash.v)
                     THEN RetrievalResult(TRUE, Some(reassembled), metadata, None, TRUE)
                     ELSE RetrievalResult(FALSE, Some(reassembled), metadata,
                            Some(<<"Reassembled data hash verification failed">>), FALSE)
                ELSE RetrievalResult(TRUE, Some(reassembled), metadata, None, FALSE)]))

\* DatasetRetrieval.get_by_hash
get_by_hash(data_hash) ==
  RetrievalResult(FALSE, None, None,
                  Some(<<"Hash-based lookup not yet implemented. Use txid instead.">>),
                  FALSE)

\* DatasetRetrieval.verify(txid, expected_hash)
verify(fetched, expected_hash, now) ==
  Let(get(fetched, FALSE, now), LAMBDA result :
    IF ~result.success \/ ~result.data.some \/ BLen(result.data.v) = 0
    THEN FALSE
    ELSE sha256_hexdigest(result.data.v) = expected_hash)

(***************************************************************************)
(* storage.py: store                                                       *)
(***************************************************************************)

\* StorageResult
StorageResult(success, txid, chunk_txids, error, data_hash) ==
  [success |-> success, txid |-> txid, metadata_txid |-> None,
   chunk_txids |-> chunk_txids, error |-> error, data_hash |-> data_hash]

\* One call of client.store_data(data, source_utxo)
StoreDataCall(data, utxo) == [data |-> data, utxo |-> utxo]

\* Chunk metadata that counts the chunks from 1 and names the hash of the
\* chunk.
ChunkMetadataOwn(metadata, chunk, i, total_chunks, data_hash, now) ==
  DataMetadata(metadata.name,
               metadata.data_type,
               JStr(BCat(S_Chunk, BCat(Decimal(i + 1),
                         BCat(Rep(47, 1), Decimal(total_chunks))))),
               JStr(S_1_0),
               JStr(now),
               JInt(BLen(chunk)),
               metadata.compressed,
               JInt(i + 1),
               JInt(total_chunks),
               JStr(sha256_hexdigest(chunk)),
               metadata.custom)

\* The metadata _store_chunked gives chunk i (0-based) of total_chunks.
ChunkMetadata(metadata, chunk, i, total_chunks, data_hash, now) ==
  DataMetadata(metadata.name,
               metadata.data_type,
               JStr(BCat(S_Chunk, BCat(Decimal(i + 1),
                         BCat(Rep(47, 1), Decimal(total_chunks))))),
               JStr(S_1_0),
               JStr(now),
               JInt(BLen(chunk)),
               metadata.compressed,
               JInt(i),
               JInt(total_chunks),
               JStr(data_hash),
               metadata.custom)

\* A chunked store that reports no transaction of a set it did not finish.
store_chunked_forgetting(data, metadata, source_utxo, data_hash, now, sent) ==
  IF ~source_utxo.some
  THEN [exc |-> "", msg |-> "", calls |-> <<>>,
        ret |-> StorageResult(FALSE, None, <<>>,
                  Some(<<"Source UTXO required for chunked storage">>), data_hash)]
  ELSE Let(chunk_data(data), LAMBDA chunks :
       Let(Tuple([k \in 1..Len(chunks) |->
                    create_storage_payload(chunks[k],
                      ChunkMetadata(metadata, chunks[k], k - 1,
                                    Len(chunks), data_hash, now))]), LAMBDA payloads :
         LET total_chunks == Len(chunks)
             Stops(k)     == payloads[k].exc # "" \/ sent[k].exc # ""
             made(n)      == Tuple([k \in 1..n |->
                                      StoreDataCall(payloads[k].v, source_utxo.v)])
             txids(n)     == Tuple([k \in 1..n |-> sent[k].v])
         IN
         IF \A k \in 1..total_chunks : ~Stops(k)
         THEN [exc |-> "", msg |-> "", calls |-> made(total_chunks),
               ret |-> StorageResult(TRUE, None, txids(total_chunks), None, data_hash)]
         ELSE Let(CHOOSE i \in 1..total_chunks :
                    Stops(i) /\ \A j \in 1..(i - 1) : ~Stops(j), LAMBDA k :
           IF payloads[k].exc # ""
           THEN [exc |-> payloads[k].exc, msg |-> payloads[k].msg,
                 calls |-> made(k - 1),
                 ret |-> StorageResult(FALSE, None, <<>>, None, data_hash)]
           ELSE [exc |-> "", msg |-> "", calls |-> made(k),
                 ret |-> StorageResult(FALSE, None, <<>>,
                           Some(<<"Failed on chunk ", ToString(k), ": ", sent[k].msg>>),
                           data_hash)])))

\* DatasetStorage._store_chunked(data, metadata, source_utxo, data_hash).
\* sent[k] is the outcome of the k-th client.store_data call.  ret is the
\* StorageResult returned, or exc the exception that leaves the method;
\* calls are the store_data calls made.
store_chunked(data, metadata, source_utxo, data_hash, now, sent) ==
  IF ~source_utxo.some
  THEN [exc |-> "", msg |-> "", calls |-> <<>>,
        ret |-> StorageResult(FALSE, None, <<>>,
                  Some(<<"Source UTXO required for chunked storage">>), data_hash)]
  ELSE Let(chunk_data(data), LAMBDA chunks :
       Let(Tuple([k \in 1..Len(chunks) |->
                    create_storage_payload(chunks[k],
                      ChunkMetadata(metadata, chunks[k], k - 1,
                                    Len(chunks), data_hash, now))]), LAMBDA payloads :
         LET total_chunks == Len(chunks)
             Stops(k)     == payloads[k].exc # "" \/ sent[k].exc # ""
             made(n)      == Tuple([k \in 1..n |->
                                      StoreDataCall(payloads[k].v, source_utxo.v)])
             txids(n)     == Tuple([k \in 1..n |-> sent[k].v])
         IN
         IF \A k \in 1..total_chunks : ~Stops(k)
         THEN [exc |-> "", msg |-> "", calls |-> made(total_chunks),
               ret |-> StorageResult(TRUE, None, txids(total_chunks), None, data_hash)]
         ELSE Let(CHOOSE i \in 1..total_chunks :
                    Stops(i) /\ \A j \in 1..(i - 1) : ~Stops(j), LAMBDA k :
           IF payloads[k].exc # ""
           THEN [exc |-> payloads[k].exc, msg |-> payloads[k].msg,
                 calls |-> made(k - 1),
                 ret |-> StorageResult(FALSE, None, <<>>, None, data_hash)]
           ELSE [exc |-> "", msg |-> "", calls |-> made(k),
                 ret |-> StorageResult(FALSE, None, txids(k - 1),
                           Some(<<"Failed on chunk ", ToString(k), ": ", sent[k].msg>>),
                           data_hash)])))

\* DatasetStorage.store(data, name, data_type, description, source_utxo,
\* compress, custom_metadata) for bytes: [ret |-> the StorageResult,
\* calls |-> the store_data calls made].  An exception caught by the
\* method's handler gives a result whose error is its str().
store(data, name, data_type, description, source_utxo, compress, custom_metadata, now, sent) ==
  LET caught(msg) == StorageResult(FALSE, None, <<>>, Some(<<msg>>), <<>>) IN
  Let(prepare_data(data, compress), LAMBDA prepared :
  Let(sha256_hexdigest(data), LAMBDA data_hash :
  Let(DataMetadata(JStr(name), data_type, JStr(description), JStr(S_1_0),
                   JStr(now), JInt(BLen(data)), JBool(prepared[2]),
                   JNull, JNull, JStr(data_hash), custom_metadata), LAMBDA metadata :
  Let(create_storage_payload(prepared[1], metadata), LAMBDA payload :
    IF payload.exc # ""
    THEN [ret |-> caught(payload.msg), calls |-> <<>>]
    ELSE IF BLen(payload.v) <= MAX_CHUNK_SIZE
    THEN IF ~source_utxo.some
         THEN [ret |-> StorageResult(FALSE, None, <<>>,
                         Some(<<"Source UTXO required for transaction. Please fund your wallet.">>),
                         data_hash),
               calls |-> <<>>]
         ELSE IF sent[1].exc # ""
         THEN [ret |-> caught(sent[1].msg),
               calls |-> <<StoreDataCall(payload.v, source_utxo.v)>>]
         ELSE [ret |-> StorageResult(TRUE, Some(sent[1].v), <<>>, None, data_hash),
               calls |-> <<StoreDataCall(payload.v, source_utxo.v)>>]
    ELSE Let(store_chunked(prepared[1], metadata, source_utxo, data_hash, now, sent),
             LAMBDA r :
           IF r.exc # ""
           THEN [ret |-> caught(r.msg), calls |-> r.calls]
           ELSE [ret |-> r.ret, calls |-> r.calls])))))

\* d[key] = value
DictSet(d, key, value) ==
  IF HasKey(d, key)
  THEN JObj(Tuple([i \in 1..Len(d.o) |->
                    IF d.o[i].k = key THEN Item(key, value) ELSE d.o[i]]))
  ELSE JObj(Append(d.o, Item(key, value)))

\* "type", "reference", "hash", "url", "external_url"
S_type == Bytes(<<116, 121, 112, 101>>)
S_reference == Bytes(<<114, 101, 102, 101, 114, 101, 110, 99, 101>>)
S_hash == Bytes(<<104, 97, 115, 104>>)
S_url == Bytes(<<117, 114, 108>>)
S_external_url == Bytes(<<101, 120, 116, 101, 114, 110, 97, 108, 95, 117, 114, 108>>)

\* DatasetStorage.store_reference
store_reference(data_hash, name, data_type, external_url, source_utxo, description, custom_metadata, now, sent) ==
  LET reference_data == JObj(<< Item(S_type, JStr(S_reference)),
                                Item(S_hash, JStr(data_hash)),
                                Item(S_url, JStr(external_url)) >>)
      custom == DictSet(DictSet(custom_metadata, S_reference, JBool(TRUE)),
                        S_external_url, JStr(external_url))
  IN  store(json_dumps(reference_data), name, data_type, description, source_utxo,
            FALSE, custom, now, sent)

(***************************************************************************)
(* config.py: the global configuration, and the constructors that fall     *)
(* back on it.  A Config instance is a number: those Config.from_env makes *)
(* for get_config are 1, 2, ... in the order they are made, those a caller *)
(* makes are negative.  The module's state g holds _config as `instance`   *)
(* (0: None), and, kept beside it to state properties, how many instances  *)
(* from_env has made, how many times get_config was called, the instance   *)
(* get_config returned last (0: none yet) and whether reset_config ran     *)
(* since.                                                                  *)
(***************************************************************************)

\* _config = None, before any call
NoConfig == [instance |-> 0, made |-> 0, calls |-> 0, last |-> 0, reset |-> FALSE]

\* A get_config that loads the environment on every call.
get_config_fresh(g, env) ==
  IF env = "ok"
  THEN [ret |-> Ok(g.made + 1),
        g   |-> [instance |-> g.made + 1, made |-> g.made + 1, calls |-> g.calls + 1,
                 last |-> g.made + 1, reset |-> FALSE]]
  ELSE [ret |-> Raise("ValueError", "invalid literal for int() with base 10"),
        g   |-> [g EXCEPT !.calls = g.calls + 1]]

\* get_config(): [ret |-> the instance or the exception of Config.from_env
\* (env = "bad": a port that is no number), g |-> the module's state after].
get_config(g, env) ==
  IF g.instance = 0
  THEN IF env = "ok"
       THEN [ret |-> Ok(g.made + 1),
             g   |-> [instance |-> g.made + 1, made |-> g.made + 1,
                      calls |-> g.calls + 1, last |-> g.made + 1, reset |-> FALSE]]
       ELSE [ret |-> Raise("ValueError", "invalid literal for int() with base 10"),
             g   |-> [g EXCEPT !.calls = g.calls + 1]]
  ELSE [ret |-> Ok(g.instance),
        g   |-> [g EXCEPT !.calls = g.calls + 1, !.last = g.instance, !.reset = FALSE]]

\* reset_config()
reset_config(g) == [g EXCEPT !.instance = 0, !.reset = TRUE]

\* config or get_config(): a Config instance is always truthy
ConfigOr(config, g, env) ==
  IF config.some THEN [ret |-> Ok(config.v), g |-> g] ELSE get_config(g, env)

\* BSVClient.__init__(config)
BSVClient(config, g, env) ==
  LET c == ConfigOr(config, g, env) IN
  [ret |-> IF c.ret.exc # "" THEN c.ret ELSE Ok([config |-> c.ret.v]), g |-> c.g]

\* DatasetStorage.__init__(client, config): self.config, then self.client
DatasetStorage(client, config, g, env) ==
  LET c == ConfigOr(config, g, env) IN
  IF c.ret.exc # "" THEN c
  ELSE IF client.some
  THEN [ret |-> Ok([config |-> c.ret.v, client |-> client.v]), g |-> c.g]
  ELSE LET made == BSVClient(Some(c.ret.v), c.g, env) IN
       [ret |-> Ok([config |-> c.ret.v, client |-> made.ret.v]), g |-> made.g]

\* DatasetRetrieval.__init__(client, config): the same two lines
DatasetRetrieval(client, config, g, env) == DatasetStorage(client, config, g, env)

\* BSVApp._execution_record = None, no record made and no run called
NoApp == [execution_record |-> 0, records |-> <<>>, runs |-> <<>>]

(***************************************************************************)
(* The system: the chain the transport serves, and the operations of       *)
(* DatasetStorage and DatasetRetrieval run against it.                     *)
(***************************************************************************)

VARIABLES
  chain,    \* the decoded transactions the node serves; a txid is an index
  stores,   \* the store calls made so far, each with its result
  op,       \* the last operation: its name, its inputs and what it returned
  nops,     \* how many operations have run
  cfg,      \* config.py's module state: the global _config and its use
  app       \* a BSVApp: its _execution_record, the records, the run calls

vars == <<chain, stores, op, nops, cfg, app>>

\* How many store calls, and how many operations in all, a behaviour makes.
MaxStores == 1
MaxOps == 2

\* One more operation runs.
Step == nops < MaxOps /\ nops' = nops + 1 /\ UNCHANGED <<cfg, app>>

\* datetime.utcnow().isoformat(): the clock moves with the chain.
S_clock == Bytes(<<50, 48, 50, 53, 45, 48, 49, 45, 48, 49, 84, 48, 48, 58, 48, 48, 58>>)
Now == BCat(S_clock, Decimal(10 + Len(chain)))

\* "raw" and "text"
DT_raw == Bytes(<<114, 97, 119>>)
DT_text == Bytes(<<116, 101, 120, 116>>)

\* Data to store.  "Seth"; 1000 and 2000 equal bytes, at and over the
\* compression threshold; 1002 bytes in runs of two, which do not compress
\* by a tenth; sizes around one chunk and over two; and data whose
\* compressed form is itself over one chunk.
D_empty == <<>>
D_seth == Bytes(<<83, 101, 116, 104>>)
D_1000 == Rep(120, 1000)
D_2000 == Rep(120, 2000)
D_mixed == Tuple([i \in 1..501 |-> [b |-> 65 + (i % 2), e |-> 2 * i]])
D_near == Rep(7, 89900)
D_big == BCat(Rep(7, 100000), Rep(8, 90000))
D_huge == BCat(Rep(7, 12000000), Rep(9, 12000000))

\* custom_metadata values: none, and {"k": "v", "n": 1}
NoCustom == JObj(<<>>)
SomeCustom == JObj(<<Item(Rep(107, 1), JStr(Rep(118, 1))), Item(Rep(110, 1), JInt(1))>>)

\* A source UTXO: its outpoint's txid and output index.
Utxo1 == [txid |-> 9001, output_index |-> 0]

StoreRequest(data, compress, description, source_utxo, custom) ==
  [data |-> data, name |-> D_seth, data_type |-> DT_text, description |-> description,
   source_utxo |-> source_utxo, compress |-> compress, custom_metadata |-> custom]

\* The length of the metadata JSON of a store of D_seth with an empty
\* description; a description of n characters adds n to it.
BaseMetadataLength ==
  BLen(to_json(DataMetadata(JStr(D_seth), DT_text, JStr(<<>>), JStr(S_1_0),
                            JStr(BCat(S_clock, Decimal(10))), JInt(BLen(D_seth)),
                            JBool(FALSE), JNull, JNull,
                            JStr(sha256_hexdigest(D_seth)), NoCustom)))

\* Ten full chunks, and the custom metadata {"k": "vv...v"} that makes the
\* metadata JSON of its chunks 1 to 9 exactly 65535 bytes long: chunk 10's
\* description, "Chunk 10/10", is one character longer.
D_ten == Rep(7, 10 * MAX_CHUNK_SIZE)
LongCustom(n) == JObj(<<Item(Rep(107, 1), JStr(Rep(118, n)))>>)
LongCustomLength ==
  65535 - BLen(to_json(ChunkMetadata(
                 DataMetadata(JStr(D_seth), DT_text, JStr(<<>>), JStr(S_1_0), JStr(<<>>),
                              JInt(0), JBool(FALSE), JNull, JNull, JStr(<<>>),
                              LongCustom(0)),
                 Rep(7, MAX_CHUNK_SIZE), 8, 10, sha256_hexdigest(D_ten),
                 BCat(S_clock, Decimal(10)))))

\* The store calls of the model: the data with compression on and off (the
\* mixed and the huge data only on), stores without a UTXO, metadata of
\* exactly 65535 bytes and of one byte more, and the ten chunks.
StoreRequests ==
  { StoreRequest(d, c, <<>>, Some(Utxo1), NoCustom) :
      d \in {D_empty, D_seth, D_1000, D_2000, D_near, D_big}, c \in BOOLEAN }
  \cup { StoreRequest(D_mixed, TRUE, <<>>, Some(Utxo1), NoCustom),
         StoreRequest(D_huge, TRUE, <<>>, Some(Utxo1), NoCustom),
         StoreRequest(D_seth, TRUE, Rep(100, 3), Some(Utxo1), SomeCustom),
         StoreRequest(D_seth, TRUE, <<>>, None, NoCustom),
         StoreRequest(D_big, FALSE, <<>>, None, NoCustom),
         StoreRequest(D_seth, TRUE, Rep(100, 65535 - BaseMetadataLength),
                      Some(Utxo1), NoCustom),
         StoreRequest(D_seth, TRUE, Rep(100, 65536 - BaseMetadataLength),
                      Some(Utxo1), NoCustom),
         StoreRequest(D_ten, FALSE, <<>>, Some(Utxo1), LongCustom(LongCustomLength)) }

\* str(e) of what the transport raises: an RPC error, or an exception
\* without a message (a timeout).
TransportErrors == {"RPC Error: -5", ""}

\* The outcomes of successive client.store_data calls when call failAt (0:
\* none) raises: a call that succeeds puts a transaction on the chain and
\* returns its txid.
SentOutcomes(n, failAt, msg) ==
  Tuple([k \in 1..n |->
           IF k = failAt THEN Raise("Exception", msg) ELSE Ok(Len(chain) + k)])

\* The store_data calls of `calls` that put a transaction on the chain.
Broadcast(calls, failAt, asm) ==
  LET n == IF failAt \in 1..Len(calls) THEN failAt - 1 ELSE Len(calls)
  IN  Tuple([k \in 1..n |-> StoredTx(calls[k].data, asm)])

Init ==
  /\ chain = <<>>
  /\ stores = <<>>
  /\ op = [name |-> "init"]
  /\ nops = 0
  /\ cfg = NoConfig
  /\ app = NoApp

\* storage.store(...)
Store(req, failAt, msg, asm) ==
  /\ Len(stores) < MaxStores
  /\ Step
  /\ LET sent == SentOutcomes(BLen(req.data) \div MAX_CHUNK_SIZE + 1, failAt, msg)
         r    == store(req.data, req.name, req.data_type, req.description,
                       req.source_utxo, req.compress, req.custom_metadata, Now, sent)
     IN  /\ chain' = chain \o Broadcast(r.calls, failAt, asm)
         /\ stores' = Append(stores, [req |-> req, ret |-> r.ret])
         /\ op' = [name |-> "store", req |-> req, ret |-> r.ret, calls |-> r.calls,
                   failAt |-> failAt]

\* The outcome of client.get_raw_transaction(txid, verbose=True): the
\* transaction, a null result, or an exception.
Fetched(txid, mode, msg) ==
  CASE mode = "ok"   -> Ok(chain[txid])
    [] mode = "none" -> Ok(None)
    [] OTHER         -> Raise("Exception", msg)

\* retrieval.get(txid, verify)
Get(txid, vfy, mode, msg) ==
  /\ Step
  /\ op' = [name |-> "get", txid |-> txid, verify |-> vfy, mode |-> mode,
            ret |-> get(Fetched(txid, mode, msg), vfy, Now)]
  /\ UNCHANGED <<chain, stores>>

\* retrieval.get_chunked(chunk_txids, verify); the fetch of position failAt
\* (0: none) raises.
GetChunked(chunk_txids, vfy, failAt, msg) ==
  /\ Step
  /\ LET fetched == Tuple([i \in 1..Len(chunk_txids) |->
                       Fetched(chunk_txids[i], IF i = failAt THEN "raise" ELSE "ok", msg)])
         r       == get_chunked(fetched, vfy, Now)
     IN  op' = [name |-> "get_chunked", chunk_txids |-> chunk_txids, verify |-> vfy,
                failAt |-> failAt, ret |-> r.result,
                fetches |-> SubSeq(chunk_txids, 1, r.fetches)]
  /\ UNCHANGED <<chain, stores>>

\* retrieval.verify(txid, expected_hash)
Verify(txid, expected_hash, mode, msg) ==
  /\ Step
  /\ op' = [name |-> "verify", txid |-> txid, expected_hash |-> expected_hash,
            mode |-> mode, ret |-> verify(Fetched(txid, mode, msg), expected_hash, Now)]
  /\ UNCHANGED <<chain, stores>>

\* retrieval.get_by_hash(data_hash)
GetByHash(data_hash) ==
  /\ Step
  /\ op' = [name |-> "get_by_hash", data_hash |-> data_hash, ret |-> get_by_hash(data_hash)]
  /\ UNCHANGED <<chain, stores>>

\* storage.store_reference(...)
StoreReference(data_hash, source_utxo, custom, failAt, msg, asm) ==
  /\ Len(stores) < MaxStores
  /\ Step
  /\ LET url  == Bytes(<<104, 116, 116, 112, 58, 47, 47, 120>>)
         sent == SentOutcomes(1, failAt, msg)
         r    == store_reference(data_hash, D_seth, DT_raw, url, source_utxo, <<>>,
                                 custom, Now, sent)
         req  == StoreRequest(json_dumps(JObj(<< Item(S_type, JStr(S_reference)),
                                                 Item(S_hash, JStr(data_hash)),
                                                 Item(S_url, JStr(url)) >>)),
                              FALSE, <<>>, source_utxo, custom)
     IN  /\ chain' = chain \o Broadcast(r.calls, failAt, asm)
         /\ stores' = Append(stores, [req |-> req, ret |-> r.ret])
         /\ op' = [name |-> "store_reference", req |-> req, ret |-> r.ret,
                   calls |-> r.calls]

\* The hashes a caller may hold: of the empty data, of "Seth", and of what
\* was stored.
KnownHashes ==
  {sha256_hexdigest(D_empty), sha256_hexdigest(D_seth)}
  \cup {stores[i].ret.data_hash : i \in 1..Len(stores)}

\* The txid lists a caller passes to get_chunked: a store's chunk_txids,
\* whole, cut short or reversed, and the chain's first transaction twice.
Reverse(q) == Tuple([i \in 1..Len(q) |-> q[Len(q) + 1 - i]])
ChunkLists ==
  UNION { LET c == stores[i].ret.chunk_txids
          IN  {c, Reverse(c)} \cup {SubSeq(c, 1, n) : n \in 0..Len(c)}
        : i \in 1..Len(stores) }
  \cup (IF Len(chain) > 0 THEN {<<1>>, <<1, 1>>} ELSE {<<>>})

\* Which of n successive transport calls raises (at = 0: none), and with
\* what message.
Failures(n) ==
  {[at |-> 0, msg |-> ""]} \cup {[at |-> k, msg |-> m] : k \in 1..n, m \in TransportErrors}

\* What one get_raw_transaction call does.
Responses ==
  {[mode |-> "ok", msg |-> ""], [mode |-> "none", msg |-> ""]}
  \cup {[mode |-> "raise", msg |-> m] : m \in TransportErrors}

Next ==
  \/ \E req \in StoreRequests, asm \in AsmForms :
       \E f \in Failures(IF BLen(req.data) > MAX_CHUNK_SIZE THEN 2 ELSE 1) :
         Store(req, f.at, f.msg, asm)
  \/ \E u \in {None, Some(Utxo1)}, f \in Failures(1), asm \in AsmForms :
       StoreReference(sha256_hexdigest(D_seth), u, NoCustom, f.at, f.msg, asm)
  \/ \E txid \in 1..Len(chain), vfy \in BOOLEAN, r \in Responses :
       Get(txid, vfy, r.mode, r.msg)
  \/ \E txids \in ChunkLists, vfy \in BOOLEAN :
       \E f \in Failures(Len(txids)) : GetChunked(txids, vfy, f.at, f.msg)
  \/ \E txid \in 1..Len(chain), h \in KnownHashes, r \in Responses :
       Verify(txid, h, r.mode, r.msg)
  \/ \E h \in KnownHashes : GetByHash(h)

Spec == Init /\ [][Next]_vars

(***************************************************************************)
(* The same system over a transport that serves every call: each broadcast *)
(* is accepted and each transaction is handed back as it was stored.       *)
(***************************************************************************)

\* The store calls whose metadata fits and that bring a UTXO.
ServedRequests ==
  {req \in StoreRequests :
     /\ req.source_utxo.some
     /\ req.custom_metadata \in {NoCustom, SomeCustom}
     /\ BLen(req.description) <= 65535 - BaseMetadataLength}

NextServed ==
  \/ \E req \in ServedRequests : Store(req, 0, "", <<"0", "OP_RETURN", "data">>)
  \/ \E txid \in 1..Len(chain), vfy \in BOOLEAN : Get(txid, vfy, "ok", "")
  \/ \E txids \in ChunkLists, vfy \in BOOLEAN : GetChunked(txids, vfy, 0, "")

SpecServed == Init /\ [][NextServed]_vars

(***************************************************************************)
(* The codec, the script extraction and the chunk split on their own: a    *)
(* behaviour starts from one input and applies the functions to it.        *)
(***************************************************************************)

\* 'a"b\c', bytes that are no text and hold a brace and a quote, and
\* {"k": {"l": [1, "v", null, true]}, "n": -5}
S_quoted == Bytes(<<97, 34, 98, 92, 99>>)
D_binary == Bytes(<<0, 255, 123, 34, 125>>)
NestedCustom ==
  JObj(<< Item(Rep(107, 1),
               JObj(<<Item(Rep(108, 1),
                           JList(<< Item(<<>>, JInt(1)), Item(<<>>, JStr(Rep(118, 1))),
                                    Item(<<>>, JNull), Item(<<>>, JBool(TRUE)) >>))>>)),
          Item(Rep(110, 1), JInt(0 - 5)) >>)

\* A DataMetadata as store and _store_chunked build them.
CodecMeta(name, data_type, description, compressed, chunked, custom) ==
  DataMetadata(JStr(name), data_type, JStr(description), JStr(S_1_0),
               JStr(BCat(S_clock, Decimal(10))),
               JInt(IF chunked THEN MAX_CHUNK_SIZE ELSE 4), JBool(compressed),
               IF chunked THEN JInt(1) ELSE JNull,
               IF chunked THEN JInt(3) ELSE JNull,
               JStr(IF chunked THEN <<>> ELSE sha256_hexdigest(D_seth)), custom)

\* The metadata whose JSON is n bytes long, by the length of its description.
MetaOfJsonLength(n) ==
  CodecMeta(D_seth, DT_text,
            Rep(100, n - BLen(to_json(CodecMeta(D_seth, DT_text, <<>>, FALSE, FALSE,
                                                SomeCustom)))),
            FALSE, FALSE, SomeCustom)

CodecMetadata ==
  { CodecMeta(n, dt, <<>>, c, ch, cu) :
      n \in {D_seth, S_quoted}, dt \in DataTypeValues, c \in BOOLEAN, ch \in BOOLEAN,
      cu \in {NoCustom, NestedCustom} }
  \cup { CodecMeta(<<>>, DT_raw, Rep(32, 2), FALSE, FALSE, SomeCustom),
         MetaOfJsonLength(65535), MetaOfJsonLength(65536) }

CodecData == {D_empty, D_binary, D_2000}

\* The metadata blocks of payloads no store wrote: no JSON, JSON that is no
\* object, objects without a name or a data_type, and a data_type outside
\* the enum.
S_not_json == Bytes(<<123, 110, 111, 116>>)
ForeignMetadata ==
  << S_not_json,
     json_dumps(JList(<<Item(<<>>, JInt(1))>>)),
     json_dumps(JStr(D_seth)),
     json_dumps(JInt(5)),
     S_null,
     json_dumps(JObj(<<Item(S_data_type, JStr(DT_raw))>>)),
     json_dumps(JObj(<<Item(S_name, JStr(D_seth))>>)),
     json_dumps(JObj(<<Item(S_name, JStr(D_seth)), Item(S_data_type, JStr(D_seth))>>)),
     json_dumps(JObj(<<Item(S_name, JStr(D_seth)), Item(S_data_type, JInt(5))>>)),
     <<>> >>

\* PROTOCOL_PREFIX | length | block | data, written by another program.
Framed(block, data) ==
  BCat(PROTOCOL_PREFIX, BCat(to_bytes_2_big(BLen(block)).v, BCat(block, data)))

\* The payloads no store wrote: each block framed, then a payload with
\* another prefix, the prefix alone, and a payload cut inside its block.
ForeignPayloads ==
  Tuple([i \in 1..Len(ForeignMetadata) |-> Framed(ForeignMetadata[i], D_seth)])
  \o << BCat(Bytes(<<66, 83, 86, 88, 88, 88>>),
             BFrom(Framed(to_json(CodecMeta(D_seth, DT_raw, <<>>, FALSE, FALSE, NoCustom)),
                          D_seth), 6)),
        PROTOCOL_PREFIX,
        BSlice(Framed(to_json(CodecMeta(D_seth, DT_raw, <<>>, FALSE, FALSE, NoCustom)),
                      D_seth), 0, 40) >>

\* The push lengths around each form's limit, and the bytes pushed.
PushLengths == {0, 1, 75, 76, 255, 256, 65535, 65536}
Pushed(n) == {Rep(7, n), BCat(Rep(0, n \div 2), Rep(106, n - n \div 2))}

\* Lengths around one, two and three chunks.
ChunkLengths ==
  {0, 1, MAX_CHUNK_SIZE - 1, MAX_CHUNK_SIZE, MAX_CHUNK_SIZE + 1,
   2 * MAX_CHUNK_SIZE, 2 * MAX_CHUNK_SIZE + 1, 3 * MAX_CHUNK_SIZE + 17}

\* The outputs a transaction is made of, by kind: the change output; a
\* script OP_FALSE OP_RETURN OP_1 and one OP_FALSE OP_RETURN OP_RETURN,
\* whose byte at offset 2 is above 0x4e; OP_RETURN without OP_FALSE before
\* it; OP_1 OP_FALSE OP_RETURN <push>, the marker not at the start; the
\* marker alone; and three that carry a push: of "Seth", of 80 bytes under
\* PUSHDATA1, and of nothing.
OutputKinds ==
  {"change", "op_1", "op_return", "bare", "late", "marker", "seth", "eighty", "nothing"}
PushedBy(kind) ==
  CASE kind = "seth"   -> D_seth
    [] kind = "eighty" -> Rep(7, 80)
    [] OTHER           -> <<>>
OutputOf(kind) ==
  CASE kind = "change"    -> ChangeOutput
    [] kind = "op_1"      -> Vout(<<"0", "OP_RETURN", "1">>, HexText(Bytes(<<0, 106, 81>>)))
    [] kind = "op_return" -> Vout(<<"OP_FALSE", "OP_RETURN", "OP_RETURN">>,
                                  HexText(Bytes(<<0, 106, 106>>)))
    [] kind = "bare"      -> Vout(<<"OP_RETURN", "data">>,
                                  HexText(BCat(Bytes(<<106, 4>>), D_seth)))
    [] kind = "late"      -> Vout(<<"OP_1", "OP_FALSE", "OP_RETURN", "data">>,
                                  HexText(BCat(Bytes(<<81, 0, 106, 4>>), D_seth)))
    [] kind = "marker"    -> Vout(<<"0", "OP_RETURN">>, HexText(Bytes(<<0, 106>>)))
    [] kind = "seth"      -> Vout(<<"0", "OP_RETURN", "data">>,
                                  HexText(OpReturnScript("direct", D_seth)))
    [] kind = "eighty"    -> Vout(<<"OP_FALSE", "OP_RETURN", "data">>,
                                  HexText(OpReturnScript("PUSHDATA1", Rep(7, 80))))
    [] OTHER              -> Vout(<<"0", "OP_RETURN", "0">>,
                                  HexText(OpReturnScript("direct", <<>>)))

\* The output lists: every list of at most MaxOutputs kinds.
MaxOutputs == 3
OutputLists == UNION {[1..n -> OutputKinds] : n \in 0..MaxOutputs}

\* The bytes _prepare_data is given: nothing, 1000 and 1001 equal bytes,
\* 1002 bytes that no stream shortens, and 2000 bytes, `a` of them
\* alternating, whose stream is just under, at, and just over nine tenths
\* of them.
Alternating(a) == Tuple([i \in 1..a |-> [b |-> 65 + (i % 2), e |-> i]])
PrepareData ==
  {D_empty, D_1000, Rep(7, 1001), D_mixed, D_2000}
  \cup {BCat(Alternating(a), Rep(7, 2000 - a)) : a \in {892, 893, 894}}

\* The inputs a behaviour starts from.
Inputs ==
  { [name |-> "codec input", data |-> d, metadata |-> m] :
      d \in CodecData, m \in CodecMetadata }
  \cup { [name |-> "payload", payload |-> ForeignPayloads[i]] :
           i \in 1..Len(ForeignPayloads) }
  \cup UNION { { [name |-> "script", form |-> f, data |-> d, asm |-> a, first |-> b] :
                   f \in PushForms(n), d \in Pushed(n), a \in AsmForms, b \in BOOLEAN }
               : n \in PushLengths }
  \cup { [name |-> "outputs", kinds |-> k] : k \in OutputLists }
  \cup { [name |-> "unprepared", data |-> d, compress |-> c] :
           d \in PrepareData, c \in BOOLEAN }
  \cup UNION { { [name |-> "bytes", data |-> d] :
                   d \in {Rep(7, n), BCat(Rep(7, n \div 2), Rep(8, n - n \div 2))} }
               : n \in ChunkLengths }

InitPure ==
  /\ chain = <<>>
  /\ stores = <<>>
  /\ op \in Inputs
  /\ nops = 0
  /\ cfg = NoConfig
  /\ app = NoApp

\* _create_storage_payload(data, metadata)
CreatePayload ==
  /\ op.name = "codec input"
  /\ op' = [name |-> "create_storage_payload", data |-> op.data,
            metadata |-> op.metadata,
            ret |-> create_storage_payload(op.data, op.metadata)]
  /\ UNCHANGED <<chain, stores, nops, cfg, app>>

\* _parse_payload(payload), of a payload just created or of a foreign one
ParsePayload ==
  /\ \/ op.name = "create_storage_payload" /\ op.ret.exc = ""
     \/ op.name = "payload"
  /\ LET payload == IF op.name = "payload" THEN op.payload ELSE op.ret.v
     IN  op' = [name |-> "parse_payload", payload |-> payload, from |-> op,
                ret |-> parse_payload(payload, Now)]
  /\ UNCHANGED <<chain, stores, nops, cfg, app>>

\* _extract_op_return_data(tx_data), of a transaction whose OP_RETURN
\* output is the first or the second of two
Extract ==
  /\ op.name = "script"
  /\ LET vout    == Vout(op.asm, HexText(OpReturnScript(op.form, op.data)))
         tx_data == Some(IF op.first THEN <<vout, ChangeOutput>>
                         ELSE <<ChangeOutput, vout>>)
     IN  op' = [name |-> "extract_op_return_data", form |-> op.form, data |-> op.data,
                tx_data |-> tx_data, ret |-> extract_op_return_data(tx_data)]
  /\ UNCHANGED <<chain, stores, nops, cfg, app>>

\* The transaction whose outputs are of the kinds listed.
TxOf(kinds) == Some(Tuple([i \in 1..Len(kinds) |-> OutputOf(kinds[i])]))

\* _extract_op_return_data(tx_data), of a transaction of any outputs
ExtractOutputs ==
  /\ op.name = "outputs"
  /\ op' = [name |-> "extract of outputs", kinds |-> op.kinds,
            ret |-> extract_op_return_data(TxOf(op.kinds))]
  /\ UNCHANGED <<chain, stores, nops, cfg, app>>

\* get(txid, verify=True), the transport handing back such a transaction
GetOutputs ==
  /\ op.name = "outputs"
  /\ op' = [name |-> "get of outputs", kinds |-> op.kinds,
            ret |-> get(Ok(TxOf(op.kinds)), TRUE, Now)]
  /\ UNCHANGED <<chain, stores, nops, cfg, app>>

\* _prepare_data(data, data_type, compress), of bytes
Prepare ==
  /\ op.name = "unprepared"
  /\ op' = [name |-> "prepare_data", data |-> op.data, compress |-> op.compress,
            ret |-> prepare_data(op.data, op.compress)]
  /\ UNCHANGED <<chain, stores, nops, cfg, app>>

\* _chunk_data(data)
Chunk ==
  /\ op.name = "bytes"
  /\ op' = [name |-> "chunk_data", data |-> op.data, ret |-> chunk_data(op.data)]
  /\ UNCHANGED <<chain, stores, nops, cfg, app>>

NextPure ==
  \/ CreatePayload
  \/ ParsePayload
  \/ Extract
  \/ ExtractOutputs
  \/ GetOutputs
  \/ Prepare
  \/ Chunk

SpecPure == InitPure /\ [][NextPure]_vars

(***************************************************************************)
(* Retrieval from a chain other programs wrote to: the transport serves    *)
(* transactions no store of this library made, and a behaviour runs one    *)
(* retrieval against them.                                                 *)
(***************************************************************************)

\* A transaction with the one output whose script text is `hex`.
ScriptTx(asm, hex) == Some(<<Vout(asm, hex), ChangeOutput>>)

\* Well-framed payloads: "Seth" under its own hash, under the hash of other
\* data, without a hash, and marked compressed though it is not.
GoodMeta(data_hash, compressed) ==
  DataMetadata(JStr(D_seth), DT_text, JStr(<<>>), JStr(S_1_0),
               JStr(BCat(S_clock, Decimal(10))), JInt(4), JBool(compressed),
               JNull, JNull, JStr(data_hash), NoCustom)
WellFramed ==
  << Framed(to_json(GoodMeta(sha256_hexdigest(D_seth), FALSE)), D_seth),
     Framed(to_json(GoodMeta(sha256_hexdigest(D_2000), FALSE)), D_seth),
     Framed(to_json(GoodMeta(<<>>, FALSE)), D_seth),
     Framed(to_json(GoodMeta(sha256_hexdigest(D_seth), TRUE)), D_seth) >>

\* Scripts whose push names more bytes than the script has, or that end
\* inside the length: the first well-framed payload under a PUSHDATA2 and a
\* PUSHDATA4 length five too large, "Seth" under a direct length of 10 and
\* under a PUSHDATA1 length of 255, and a PUSHDATA2 with one length byte.
OverlongPush(opcode, width, data, extra) ==
  BCat(Bytes(<<0, 106, opcode>>), BCat(to_bytes_little(BLen(data) + extra, width), data))
Overlong ==
  << OverlongPush(77, 2, WellFramed[1], 5),
     OverlongPush(78, 4, WellFramed[1], 5),
     BCat(Bytes(<<0, 106, 10>>), D_seth),
     BCat(Bytes(<<0, 106, 76, 255>>), D_seth),
     Bytes(<<0, 106, 77, 5>>) >>

\* Payloads whose data segment is a zlib stream of 2000 bytes: marked
\* compressed, and not marked; and, marked compressed, the stream cut after
\* ten bytes and the stream with another last byte.
DeflatedMeta(data, compressed) ==
  DataMetadata(JStr(D_seth), DT_raw, JStr(<<>>), JStr(S_1_0),
               JStr(BCat(S_clock, Decimal(10))), JInt(2000), JBool(compressed),
               JNull, JNull, JStr(sha256_hexdigest(data)), NoCustom)
Deflated ==
  << Framed(to_json(DeflatedMeta(D_2000, TRUE)), zlib_compress(D_2000)),
     Framed(to_json(DeflatedMeta(zlib_compress(D_2000), FALSE)), zlib_compress(D_2000)),
     Framed(to_json(DeflatedMeta(D_2000, TRUE)), BSlice(zlib_compress(D_2000), 0, 10)),
     Framed(to_json(DeflatedMeta(D_2000, TRUE)),
            BCat(BSlice(zlib_compress(D_2000), 0, BLen(zlib_compress(D_2000)) - 1),
                 Rep(1, 1))) >>

\* The chain: the foreign payloads, the well-framed ones, then a push of
\* nothing, a script text that is not hexadecimal, an empty script text, a
\* script cut after PUSHDATA1, an output without asm, a transaction
\* without an OP_RETURN output, the overlong scripts and the deflated
\* payloads.
ForeignChain ==
  Tuple([i \in 1..Len(ForeignPayloads) |->
           StoredTx(ForeignPayloads[i], <<"0", "OP_RETURN", "data">>)])
  \o Tuple([i \in 1..Len(WellFramed) |->
              StoredTx(WellFramed[i], <<"OP_FALSE", "OP_RETURN", "data">>)])
  \o << StoredTx(<<>>, <<"0", "OP_RETURN", "data">>),
        ScriptTx(<<"0", "OP_RETURN", "data">>, BadHexText),
        ScriptTx(<<"0", "OP_RETURN", "data">>, HexText(<<>>)),
        ScriptTx(<<"0", "OP_RETURN", "data">>, HexText(Bytes(<<0, 106, 76>>))),
        ScriptTx(<<>>, HexText(create_op_return_output(WellFramed[1]))),
        Some(<<ChangeOutput>>) >>
  \o Tuple([i \in 1..Len(Overlong) |->
              ScriptTx(<<"0", "OP_RETURN", "data">>, HexText(Overlong[i]))])
  \o Tuple([i \in 1..Len(Deflated) |->
              StoredTx(Deflated[i], <<"0", "OP_RETURN", "data">>)])

\* The txids of the well-framed payloads, and where the other transactions
\* of the chain are.
WellFramedTxids == (Len(ForeignPayloads) + 1)..(Len(ForeignPayloads) + Len(WellFramed))
GarbledTxid == Len(ForeignPayloads) + Len(WellFramed)
BadHexTxid == GarbledTxid + 2
CutTxid == GarbledTxid + 4
AsmAbsentTxid == GarbledTxid + 5
OverlongTxids == (GarbledTxid + 7)..(GarbledTxid + 6 + Len(Overlong))
DeflatedTxids ==
  (GarbledTxid + 7 + Len(Overlong))..(GarbledTxid + 6 + Len(Overlong) + Len(Deflated))

DeflatedTxid(i) == GarbledTxid + 6 + Len(Overlong) + i

\* The lists get_chunked is given: none, two of the well-framed ones, one
\* and a foreign one, and three with one in each place that cannot be
\* retrieved.
ForeignLists ==
  {<<>>} \cup {<<a, b>> : a \in WellFramedTxids, b \in WellFramedTxids \cup {1}}
  \cup UNION { LET a == Len(ForeignPayloads) + 1
                   b == Len(ForeignPayloads) + 3
               IN  {<<x, a, b>>, <<a, x, b>>, <<a, b, x>>}
             : x \in {1, GarbledTxid, BadHexTxid, CutTxid} }

InitForeign ==
  /\ chain = ForeignChain
  /\ stores = <<>>
  /\ op = [name |-> "init"]
  /\ nops = 0
  /\ cfg = NoConfig
  /\ app = NoApp

NextForeign ==
  /\ op.name = "init"
  /\ \/ \E txid \in 1..Len(chain), vfy \in BOOLEAN, r \in Responses :
          Get(txid, vfy, r.mode, r.msg)
     \/ \E txids \in ForeignLists, vfy \in BOOLEAN :
          \E f \in Failures(Len(txids)) : GetChunked(txids, vfy, f.at, f.msg)
     \/ \E txid \in 1..Len(chain), r \in Responses :
          \E h \in {sha256_hexdigest(D_seth), sha256_hexdigest(D_2000)} :
            Verify(txid, h, r.mode, r.msg)

SpecForeign == InitForeign /\ [][NextForeign]_vars

(***************************************************************************)
(* executor.py                                                             *)
(***************************************************************************)

\* Keys of the to_dict methods that metadata does not have, the enum values
\* of ExecutionStatus, and the texts run and store_outputs write.
S_execution_id == Bytes(<<101, 120, 101, 99, 117, 116, 105, 111, 110, 95, 105, 100>>)
S_app_name == Bytes(<<97, 112, 112, 95, 110, 97, 109, 101>>)
S_app_version == Bytes(<<97, 112, 112, 95, 118, 101, 114, 115, 105, 111, 110>>)
S_status == Bytes(<<115, 116, 97, 116, 117, 115>>)
S_started_at == Bytes(<<115, 116, 97, 114, 116, 101, 100, 95, 97, 116>>)
S_completed_at == Bytes(<<99, 111, 109, 112, 108, 101, 116, 101, 100, 95, 97, 116>>)
S_inputs == Bytes(<<105, 110, 112, 117, 116, 115>>)
S_outputs == Bytes(<<111, 117, 116, 112, 117, 116, 115>>)
S_parameters == Bytes(<<112, 97, 114, 97, 109, 101, 116, 101, 114, 115>>)
S_code_hash == Bytes(<<99, 111, 100, 101, 95, 104, 97, 115, 104>>)
S_code_url == Bytes(<<99, 111, 100, 101, 95, 117, 114, 108>>)
S_error == Bytes(<<101, 114, 114, 111, 114>>)
S_txid == Bytes(<<116, 120, 105, 100>>)
DT_json == Bytes(<<106, 115, 111, 110>>)
S_result == Bytes(<<114, 101, 115, 117, 108, 116>>)
S_slash_execution == Bytes(<<47, 101, 120, 101, 99, 117, 116, 105, 111, 110, 47>>)
S_Output_from == Bytes(<<79, 117, 116, 112, 117, 116, 32, 102, 114, 111, 109, 32>>)
S_v == Bytes(<<32, 118>>)
S_Execution_record == Bytes(<<69, 120, 101, 99, 117, 116, 105, 111, 110, 32, 114, 101, 99, 111, 114, 100>>)
S_an_error == Bytes(<<101, 114, 114, 111, 114>>)

\* ExecutionStatus
ExecutionStatus == {"pending", "running", "completed", "failed"}
StatusValue(status) ==
  CASE status = "pending"   -> Bytes(<<112, 101, 110, 100, 105, 110, 103>>)
    [] status = "running"   -> Bytes(<<114, 117, 110, 110, 105, 110, 103>>)
    [] status = "completed" -> Bytes(<<99, 111, 109, 112, 108, 101, 116, 101, 100>>)
    [] OTHER                -> Bytes(<<102, 97, 105, 108, 101, 100>>)

\* A bytes object as a value of a Python dict: json.dumps has no encoding
\* for it.
JBytes(s) == [t |-> "bytes", s |-> s, n |-> 0, o |-> <<>>]

\* json.dumps can encode v: it holds no bytes object.
RECURSIVE Serializable(_)
Serializable(v) ==
  /\ v.t # "bytes"
  /\ \A i \in 1..Len(v.o) : Serializable(v.o[i].v)

\* The line break and the indentation json.dumps(indent=2) writes before an
\* item at nesting depth `level`.
NewlineIndent(level) == IF level = 0 THEN Rep(10, 1) ELSE BCat(Rep(10, 1), Rep(32, 2 * level))

\* json.dumps(v, indent=2) of an encodable v, written at nesting depth level:
\* every item of a non-empty dict or list on its own line, "," between
\* items and ": " after a key.
RECURSIVE json_dumps_indent(_, _)
json_dumps_indent(v, level) ==
  CASE v.t \in {"str", "int", "bool", "null"} -> json_dumps(v)
    [] v.t = "dict" /\ v.o = <<>> -> Bytes(<<123, 125>>)
    [] v.t = "list" /\ v.o = <<>> -> Bytes(<<91, 93>>)
    [] v.t = "dict" ->
         BCat(Rep(123, 1),
              BCat(BJoin([i \in 1..Len(v.o) |->
                            BCat(IF i = 1 THEN <<>> ELSE Rep(44, 1),
                                 BCat(NewlineIndent(level + 1),
                                      BCat(DumpStr(v.o[i].k),
                                           BCat(S_colon,
                                                json_dumps_indent(v.o[i].v, level + 1)))))]),
                   BCat(NewlineIndent(level), Rep(125, 1))))
    [] OTHER ->
         BCat(Rep(91, 1),
              BCat(BJoin([i \in 1..Len(v.o) |->
                            BCat(IF i = 1 THEN <<>> ELSE Rep(44, 1),
                                 BCat(NewlineIndent(level + 1),
                                      json_dumps_indent(v.o[i].v, level + 1)))]),
                   BCat(NewlineIndent(level), Rep(93, 1))))

\* An Optional[str] as a JSON value
JOpt(x) == IF x.some THEN JStr(x.v) ELSE JNull

\* ExecutionInput
ExecutionInput(name, txid, data_type, data_hash) ==
  [name |-> name, txid |-> txid, data_type |-> data_type, data_hash |-> data_hash]

\* ExecutionInput.to_dict; a txid is written as the decimal of its position
\* on the chain.
input_to_dict(i) ==
  JObj(<< Item(S_name, JStr(i.name)),
          Item(S_txid, JStr(Decimal(i.txid))),
          Item(S_data_type, JStr(i.data_type)),
          Item(S_data_hash, JOpt(i.data_hash)) >>)

\* ExecutionOutput(name, data, data_type) with __post_init__: the hash is
\* computed only for data that is not empty.
ExecutionOutput(name, data, data_type) ==
  [name |-> name, data |-> data, data_type |-> data_type, txid |-> None,
   data_hash |-> IF BLen(data) > 0 THEN sha256_hexdigest(data) ELSE <<>>]

\* ExecutionOutput.to_dict
output_to_dict(o) ==
  JObj(<< Item(S_name, JStr(o.name)),
          Item(S_data_type, JStr(o.data_type)),
          Item(S_txid, IF o.txid.some THEN JStr(Decimal(o.txid.v)) ELSE JNull),
          Item(S_data_hash, JStr(o.data_hash)),
          Item(S_size_bytes, JInt(BLen(o.data))) >>)

\* ExecutionRecord as run constructs it (status PENDING, no times, no
\* outputs, no error, no record_txid; code_hash and code_url None).  trail is
\* the history of the status field: every value it was given, in order.
ExecutionRecord(execution_id, app_name, app_version, inputs, parameters) ==
  [execution_id |-> execution_id, app_name |-> app_name, app_version |-> app_version,
   status |-> "pending", started_at |-> None, completed_at |-> None,
   inputs |-> inputs, outputs |-> <<>>, parameters |-> parameters,
   code_hash |-> None, code_url |-> None, error |-> None, record_txid |-> None,
   trail |-> <<"pending">>]

\* record.status = status
SetStatus(record, status) ==
  [record EXCEPT !.status = status, !.trail = Append(@, status)]

\* ExecutionRecord.to_dict; the text of an error is written as "error".
record_to_dict(r) ==
  JObj(<< Item(S_execution_id, JStr(r.execution_id)),
          Item(S_app_name, JStr(r.app_name)),
          Item(S_app_version, JStr(r.app_version)),
          Item(S_status, JStr(StatusValue(r.status))),
          Item(S_started_at, JOpt(r.started_at)),
          Item(S_completed_at, JOpt(r.completed_at)),
          Item(S_inputs, JList(Tuple([i \in 1..Len(r.inputs) |->
                                        Item(<<>>, input_to_dict(r.inputs[i]))]))),
          Item(S_outputs, JList(Tuple([i \in 1..Len(r.outputs) |->
                                         Item(<<>>, output_to_dict(r.outputs[i]))]))),
          Item(S_parameters, r.parameters),
          Item(S_code_hash, JOpt(r.code_hash)),
          Item(S_code_url, JOpt(r.code_url)),
          Item(S_error, IF r.error.some THEN JStr(S_an_error) ELSE JNull) >>)

\* ExecutionRecord.to_json: json.dumps(self.to_dict(), indent=2), which
\* raises TypeError for a value it cannot encode.
record_to_json(r) ==
  Let(record_to_dict(r), LAMBDA d :
    IF Serializable(d)
    THEN Ok(json_dumps_indent(d, 0))
    ELSE Raise("TypeError", "Object of type bytes is not JSON serializable"))

\* The app's record (self._execution_record), and the app with that record
\* replaced by rec.
Current(a) == a.records[a.execution_record]
SetCurrent(a, rec) == [a EXCEPT !.records[a.execution_record] = rec]

\* run, lines 355-360: the handler marks the app's record FAILED, and run
\* returns the app's record.
Fail(a, c, error, now) ==
  LET rec == [SetStatus(Current(a), "failed") EXCEPT
                !.error = Some(error), !.completed_at = Some(now)]
  IN  [SetCurrent(a, rec) EXCEPT !.runs[c].pc = "done",
                                 !.runs[c].ret = a.execution_record]

\* run, line 360
ReturnRecord(a, c) == [a EXCEPT !.runs[c].pc = "done", !.runs[c].ret = a.execution_record]

\* run, lines 339-351: the outputs and COMPLETED are written to the app's
\* record; with store_record and a UTXO the record is serialised and handed
\* to storage.store, else run returns.
Complete(a, c, outputs, now) ==
  LET rec == [SetStatus([Current(a) EXCEPT !.outputs = outputs], "completed") EXCEPT
                !.completed_at = Some(now)]
      a1  == SetCurrent(a, rec)
      f   == a.runs[c]
  IN  IF f.store_record /\ f.source_utxo.some
      THEN Let(record_to_json(rec), LAMBDA text :
             IF text.exc # ""
             THEN Fail(a1, c, <<text.msg>>, now)
             ELSE [a1 EXCEPT !.runs[c].pc = "record",
                             !.runs[c].text = text.v,
                             !.runs[c].record_name =
                               BCat(rec.app_name, BCat(S_slash_execution, rec.execution_id))])
      ELSE ReturnRecord(a1, c)

\* store_outputs, lines 261-273: the loop comes to output j; the arguments
\* of storage.store are evaluated, the execution_id read from the app's
\* record among them.
NextOutput(a, c, outputs, j, now) ==
  IF j > Len(outputs)
  THEN Complete(a, c, outputs, now)
  ELSE [a EXCEPT !.runs[c].pc = "store", !.runs[c].outputs = outputs, !.runs[c].j = j,
                 !.runs[c].tag = Current(a).execution_id]

\* run, line 330: process is called with the inputs loaded.
InvokeProcess(a, c, input_data) ==
  [a EXCEPT !.runs[c].pc = "process", !.runs[c].invoked = TRUE,
            !.runs[c].given = input_data]

\* load_inputs, lines 225-226: the loop comes to spec i.
NextInput(a, c, input_data, i) ==
  IF i > Len(a.runs[c].inputs)
  THEN InvokeProcess(a, c, input_data)
  ELSE [a EXCEPT !.runs[c].pc = "load", !.runs[c].input_data = input_data,
                 !.runs[c].i = i]

\* load_inputs, lines 228-240, with the result of retrieval.get for spec i:
\* the exception raised (its text without the input's name and the two
\* hashes), or the inputs with the data added.
load_input(spec, result, input_data) ==
  IF ~result.success
  THEN Raise("Exception", <<"Failed to load input: ">> \o
                          (IF result.error.some THEN result.error.v ELSE <<"None">>))
  ELSE IF /\ spec.data_hash.some /\ BLen(spec.data_hash.v) > 0
          /\ BLen(result.data.v) > 0
          /\ sha256_hexdigest(result.data.v) # spec.data_hash.v
  THEN Raise("Exception", <<"Input hash mismatch">>)
  ELSE Ok(DictSet(input_data, spec.name, JBytes(result.data.v)))

\* The app's name, "demo"; its version is "1.0".
AppName == Bytes(<<100, 101, 109, 111>>)

\* str(uuid.uuid4()) of the n-th call: every call draws another id.
uuid4(n) == BCat(Bytes(<<105, 100, 45>>), Decimal(n))

\* The function a SimpleFunctionApp wraps: here the inputs' bytes one after
\* another, in the order of the dict.
func(inputs) == BJoin([i \in 1..Len(inputs.o) |-> inputs.o[i].v.s])

\* SimpleFunctionApp.prepare_output
prepare_output(result) == <<ExecutionOutput(S_result, result, DT_raw)>>

\* The custom_metadata store_outputs gives storage.store.
OutputCustom(tag) ==
  JObj(<< Item(S_app_name, JStr(AppName)), Item(S_app_version, JStr(S_1_0)),
          Item(S_execution_id, JStr(tag)) >>)

\* datetime.utcnow().isoformat() when the chain holds n transactions
NowAt(n) == BCat(S_clock, Decimal(10 + n))

\* The locals of one call of run, at the await it is suspended in (pc), with
\* what the call has done so far: the record it made, whether it called
\* process and with what, the execution_id of every output it put on the
\* chain, the number of its broadcasts, and the record it returned (0: it
\* has not returned).
RunFrame(call, made) ==
  [pc |-> "load", inputs |-> call.inputs, parameters |-> call.parameters,
   source_utxo |-> call.source_utxo, store_outputs |-> call.store_outputs,
   store_record |-> call.store_record,
   i |-> 1, input_data |-> JObj(<<>>), outputs |-> <<>>, j |-> 0,
   tag |-> <<>>, text |-> <<>>, record_name |-> <<>>,
   made |-> made, ret |-> 0, invoked |-> FALSE, given |-> JObj(<<>>),
   tags |-> <<>>, sends |-> 0]

\* BSVApp.run, lines 307-327: the record is made and put in the app, marked
\* RUNNING, and load_inputs starts.
run(a, call, now) ==
  LET n   == Len(a.records) + 1
      rec == [SetStatus(ExecutionRecord(uuid4(n), AppName, S_1_0,
                                        call.inputs, call.parameters), "running") EXCEPT
                !.started_at = Some(now)]
      a1  == [execution_record |-> n,
              records |-> Append(a.records, rec),
              runs |-> Append(a.runs, RunFrame(call, n))]
  IN  NextInput(a1, Len(a1.runs), JObj(<<>>), 1)

\* The script form of the node that decodes the app's transactions.
AppAsm == <<"OP_FALSE", "OP_RETURN", "data">>

\* The number of calls of run.
MaxRuns == 2

\* A call of run starts.
Run(call) ==
  /\ Len(app.runs) < MaxRuns
  /\ app' = run(app, call, Now)
  /\ op' = [name |-> "run", c |-> Len(app.runs) + 1]
  /\ UNCHANGED <<chain, stores, nops, cfg>>

\* load_inputs of call c resumes with the result of retrieval.get.
LoadInput(c, mode) ==
  /\ c \in 1..Len(app.runs)
  /\ app.runs[c].pc = "load"
  /\ LET f      == app.runs[c]
         spec   == f.inputs[f.i]
         result == get(Fetched(spec.txid, mode, "connection refused"), TRUE, Now)
         r      == load_input(spec, result, f.input_data)
     IN  app' = IF r.exc # ""
                THEN Fail(app, c, r.msg, Now)
                ELSE NextInput(app, c, r.v, f.i + 1)
  /\ op' = [name |-> "load_input", c |-> c]
  /\ UNCHANGED <<chain, stores, nops, cfg>>

\* process of call c returns or raises; run goes on to prepare_output and
\* on.
Process(c, raises) ==
  /\ c \in 1..Len(app.runs)
  /\ app.runs[c].pc = "process"
  /\ LET f == app.runs[c]
     IN  app' = IF raises
                THEN Fail(app, c, <<"process failed">>, Now)
                ELSE Let(prepare_output(func(f.given)), LAMBDA outputs :
                       IF f.store_outputs /\ f.source_utxo.some
                       THEN NextOutput(app, c, outputs, 1, Now)
                       ELSE Complete(app, c, outputs, Now))
  /\ op' = [name |-> "process", c |-> c]
  /\ UNCHANGED <<chain, stores, nops, cfg>>

\* store_outputs of call c resumes with the result of storage.store for
\* output j (lines 275-280).
StoreOutput(c, failAt) ==
  /\ c \in 1..Len(app.runs)
  /\ app.runs[c].pc = "store"
  /\ LET f      == app.runs[c]
         output == f.outputs[f.j]
         r      == store(output.data, BCat(AppName, BCat(Rep(47, 1), output.name)),
                         output.data_type,
                         BCat(S_Output_from, BCat(AppName, BCat(S_v, S_1_0))),
                         f.source_utxo, TRUE, OutputCustom(f.tag), Now,
                         SentOutcomes(1, failAt, "broadcast refused"))
         sent   == Broadcast(r.calls, failAt, AppAsm)
         a1     == [app EXCEPT !.runs[c].sends = @ + Len(sent),
                               !.runs[c].tags = IF sent = <<>> THEN @ ELSE Append(@, f.tag)]
         now    == NowAt(Len(chain) + Len(sent))
     IN  /\ chain' = chain \o sent
         /\ app' = IF r.ret.success
                   THEN NextOutput(a1, c,
                                   [f.outputs EXCEPT ![f.j].txid = r.ret.txid],
                                   f.j + 1, now)
                   ELSE Fail(a1, c, <<"Failed to store output: ">> \o r.ret.error.v, now)
  /\ op' = [name |-> "store_output", c |-> c]
  /\ UNCHANGED <<stores, nops, cfg>>

\* run of call c resumes with the result of storage.store for the record
\* (lines 352-360).
StoreRecord(c, failAt) ==
  /\ c \in 1..Len(app.runs)
  /\ app.runs[c].pc = "record"
  /\ LET f    == app.runs[c]
         r    == store(f.text, f.record_name, DT_json, S_Execution_record,
                       f.source_utxo, TRUE, NoCustom, Now,
                       SentOutcomes(1, failAt, "broadcast refused"))
         sent == Broadcast(r.calls, failAt, AppAsm)
         a1   == [app EXCEPT !.runs[c].sends = @ + Len(sent)]
     IN  /\ chain' = chain \o sent
         /\ app' = ReturnRecord(IF r.ret.success
                          THEN SetCurrent(a1, [Current(a1) EXCEPT !.record_txid = r.ret.txid])
                          ELSE a1, c)
  /\ op' = [name |-> "store_record", c |-> c]
  /\ UNCHANGED <<stores, nops, cfg>>

(***************************************************************************)
(* An app over a chain that holds b"" and b"Seth", each stored by the      *)
(* library: calls of run one after another, and calls of run interleaved   *)
(* at their awaits.                                                        *)
(***************************************************************************)

\* The transaction a store of `data` puts on the chain.
StoredData(data) ==
  StoredTx(store(data, D_seth, DT_text, <<>>, Some(Utxo1), FALSE, NoCustom,
                 NowAt(0), <<Ok(1)>>).calls[1].data, AppAsm)

AppChain == <<StoredData(D_empty), StoredData(D_seth)>>

\* The inputs' names, "a" and "b"
S_a == Rep(97, 1)
S_b == Rep(98, 1)

\* parameters: {}, {"n": 1}, and {"salt": b"Seth"}
NoParams == JObj(<<>>)
SomeParams == JObj(<<Item(Rep(110, 1), JInt(1))>>)
BytesParams == JObj(<<Item(Bytes(<<115, 97, 108, 116>>), JBytes(D_seth))>>)

RunCall(inputs, parameters, source_utxo, store_outputs, store_record) ==
  [inputs |-> inputs, parameters |-> parameters, source_utxo |-> source_utxo,
   store_outputs |-> store_outputs, store_record |-> store_record]

\* The calls of run: an input with its hash, stored and recorded; the hash
\* of b"Seth" asked of the transaction that holds b""; the hash of b"" asked
\* of the transaction that holds b"Seth"; no inputs and parameters that hold
\* bytes; two inputs without hashes; and a run that stores nothing.
RunCalls ==
  { RunCall(<<ExecutionInput(S_a, 2, DT_text, Some(sha256_hexdigest(D_seth)))>>,
            NoParams, Some(Utxo1), TRUE, TRUE),
    RunCall(<<ExecutionInput(S_a, 1, DT_text, Some(sha256_hexdigest(D_seth)))>>,
            NoParams, Some(Utxo1), TRUE, FALSE),
    RunCall(<<ExecutionInput(S_a, 2, DT_text, Some(sha256_hexdigest(D_empty)))>>,
            NoParams, Some(Utxo1), TRUE, TRUE),
    RunCall(<<>>, BytesParams, Some(Utxo1), FALSE, TRUE),
    RunCall(<<ExecutionInput(S_a, 2, DT_text, None),
              ExecutionInput(S_b, 1, DT_text, None)>>,
            SomeParams, Some(Utxo1), TRUE, FALSE),
    RunCall(<<ExecutionInput(S_a, 2, DT_text, Some(sha256_hexdigest(D_seth)))>>,
            NoParams, None, TRUE, TRUE) }

InitApp ==
  /\ chain = AppChain
  /\ stores = <<>>
  /\ op = [name |-> "init"]
  /\ nops = 0
  /\ cfg = NoConfig
  /\ app = NoApp

\* What the awaits of the calls in flight resume with.
Resume ==
  \/ \E c \in 1..MaxRuns, mode \in {"ok", "raise"} : LoadInput(c, mode)
  \/ \E c \in 1..MaxRuns, raises \in BOOLEAN : Process(c, raises)
  \/ \E c \in 1..MaxRuns, failAt \in 0..1 : StoreOutput(c, failAt)
  \/ \E c \in 1..MaxRuns, failAt \in 0..1 : StoreRecord(c, failAt)

\* Calls of run one after another: a call starts when every earlier call
\* has returned.
NextApp ==
  \/ \E call \in RunCalls :
       (\A c \in 1..Len(app.runs) : app.runs[c].pc = "done") /\ Run(call)
  \/ Resume

SpecApp == InitApp /\ [][NextApp]_vars

\* Calls of run on one app, interleaved at their awaits.
NextInterleaved ==
  \/ \E call \in RunCalls : Run(call)
  \/ Resume

SpecInterleaved == InitApp /\ [][NextInterleaved]_vars

(***************************************************************************)
(* One chunked store over a transport that may refuse any one of its       *)
(* broadcasts, and the chunk sets read back afterwards.                    *)
(***************************************************************************)

\* The store calls that take the chunked branch: three chunks and one chunk
\* of plain bytes, the chunks of a compressed stream, and three chunks
\* without a UTXO.
ChunkedRequests ==
  { StoreRequest(D_big, FALSE, <<>>, Some(Utxo1), NoCustom),
    StoreRequest(D_near, FALSE, <<>>, Some(Utxo1), NoCustom),
    StoreRequest(D_huge, TRUE, <<>>, Some(Utxo1), NoCustom),
    StoreRequest(D_big, FALSE, <<>>, None, NoCustom) }

NextBroadcast ==
  \/ \E req \in ChunkedRequests, asm \in AsmForms :
       \E f \in Failures(3) : stores = <<>> /\ Store(req, f.at, f.msg, asm)
  \/ \E txids \in ChunkLists, vfy \in BOOLEAN :
       stores # <<>> /\ GetChunked(txids, vfy, 0, "")

SpecBroadcast == Init /\ [][NextBroadcast]_vars

(***************************************************************************)
(* The configuration: get_config and reset_config called in any order, and *)
(* the three components constructed with and without a config of the       *)
(* caller's.                                                               *)
(***************************************************************************)

MaxConfigOps == 4

\* The Config a caller makes, and the BSVClient a caller has made with it.
OwnConfig == 0 - 1
OwnClient == [config |-> OwnConfig]

InitConfig ==
  /\ chain = <<>>
  /\ stores = <<>>
  /\ op = [name |-> "init"]
  /\ nops = 0
  /\ cfg = NoConfig
  /\ app = NoApp

ConfigStep == nops < MaxConfigOps /\ nops' = nops + 1 /\ UNCHANGED <<chain, stores, app>>

\* get_config()
GetConfig(env) ==
  /\ ConfigStep
  /\ LET r == get_config(cfg, env)
     IN  /\ cfg' = r.g
         /\ op' = [name |-> "get_config", ret |-> r.ret, before |-> cfg]

\* reset_config()
ResetConfig ==
  /\ ConfigStep
  /\ cfg' = reset_config(cfg)
  /\ op' = [name |-> "reset_config", before |-> cfg]

\* BSVClient(config)
NewClient(config, env) ==
  /\ ConfigStep
  /\ LET r == BSVClient(config, cfg, env)
     IN  /\ cfg' = r.g
         /\ op' = [name |-> "BSVClient", config |-> config, client |-> None,
                   ret |-> r.ret, before |-> cfg]

\* DatasetStorage(client, config)
NewStorage(client, config, env) ==
  /\ ConfigStep
  /\ LET r == DatasetStorage(client, config, cfg, env)
     IN  /\ cfg' = r.g
         /\ op' = [name |-> "DatasetStorage", config |-> config, client |-> client,
                   ret |-> r.ret, before |-> cfg]

\* DatasetRetrieval(client, config)
NewRetrieval(client, config, env) ==
  /\ ConfigStep
  /\ LET r == DatasetRetrieval(client, config, cfg, env)
     IN  /\ cfg' = r.g
         /\ op' = [name |-> "DatasetRetrieval", config |-> config, client |-> client,
                   ret |-> r.ret, before |-> cfg]

NextConfig ==
  \/ \E env \in {"ok", "bad"} : GetConfig(env)
  \/ ResetConfig
  \/ \E config \in {None, Some(OwnConfig)}, env \in {"ok", "bad"} : NewClient(config, env)
  \/ \E client \in {None, Some(OwnClient)}, config \in {None, Some(OwnConfig)},
        env \in {"ok", "bad"} : NewStorage(client, config, env)
  \/ \E client \in {None, Some(OwnClient)}, config \in {None, Some(OwnConfig)},
        env \in {"ok", "bad"} : NewRetrieval(client, config, env)

SpecConfig == InitConfig /\ [][NextConfig]_vars

(***************************************************************************)
(* Properties                                                              *)
(***************************************************************************)

\* An error that says something: some part of its text is not empty.
NonEmptyText(error) == error.some /\ \E i \in 1..Len(error.v) : error.v[i] # ""

\* The successful stores that put `txid` on the chain as their one
\* transaction.
SingleStoreOf(txid) ==
  {i \in 1..Len(stores) : stores[i].ret.success /\ stores[i].ret.txid = Some(txid)}

\* The successful stores that returned `txids` as their chunk set.
ChunkedStoreOf(txids) ==
  {i \in 1..Len(stores) :
     stores[i].ret.success /\ Len(txids) > 0 /\ stores[i].ret.chunk_txids = txids}

\* C1: _parse_payload of the payload _create_storage_payload made of data d
\* and metadata m returns m, equal in every field, and d; and the payload is
\* made whenever m's JSON is at most 65535 bytes long.
C1_CodecRoundTrip ==
  /\ (op.name = "create_storage_payload" /\ BLen(to_json(op.metadata)) <= 65535)
       => op.ret.exc = ""
  /\ (op.name = "parse_payload" /\ op.from.name = "create_storage_payload")
       => op.ret = Ok(<<op.from.metadata, op.from.data>>)

\* C1's case: the payload of empty data under metadata of exactly 65535
\* bytes was parsed back.
C1_Witness ==
  /\ op.name = "parse_payload"
  /\ op.from.name = "create_storage_payload"
  /\ op.from.data = D_empty
  /\ BLen(op.payload) = BLen(PROTOCOL_PREFIX) + 2 + 65535
  /\ op.ret.exc = ""

\* C2: get(txid, verify=True) of the one transaction of a successful store,
\* served unchanged, succeeds, is verified, and returns the bytes given to
\* store under metadata whose data_hash is their SHA-256.
C2_SingleRoundTrip ==
  (op.name = "get" /\ op.verify /\ op.mode = "ok")
    => \A i \in SingleStoreOf(op.txid) :
         /\ op.ret.success
         /\ op.ret.verified
         /\ op.ret.data = Some(stores[i].req.data)
         /\ op.ret.metadata.some
         /\ op.ret.metadata.v.data_hash = JStr(sha256_hexdigest(stores[i].req.data))

\* C2's case: 2000 bytes stored compressed in one transaction came back.
C2_Witness ==
  /\ op.name = "get" /\ op.verify /\ op.mode = "ok"
  /\ \E i \in SingleStoreOf(op.txid) :
       stores[i].req.data = D_2000 /\ stores[i].req.compress
  /\ op.ret.success
  /\ op.ret.metadata.v.compressed = JBool(TRUE)

\* C3: get_chunked(chunk_txids, verify=True) of the chunk set of a
\* successful store, each chunk served unchanged, succeeds, is verified, and
\* returns the bytes given to store.
C3_ChunkedRoundTrip ==
  (op.name = "get_chunked" /\ op.verify /\ op.failAt = 0)
    => \A i \in ChunkedStoreOf(op.chunk_txids) :
         /\ op.ret.success
         /\ op.ret.verified
         /\ op.ret.data = Some(stores[i].req.data)

\* C4: _extract_op_return_data of a transaction whose OP_RETURN script
\* pushes D in any of the four forms returns exactly D.
C4_ExtractExact ==
  op.name = "extract_op_return_data" => op.ret = Ok(Some(op.data))

\* C4's case: 65536 bytes pushed with PUSHDATA4 were extracted.
C4_Witness ==
  /\ op.name = "extract_op_return_data"
  /\ op.form = "PUSHDATA4"
  /\ BLen(op.data) = 65536
  /\ op.ret.exc = "" /\ op.ret.v.some

\* The position of txid in a chunk set (0 when it is not in it), and the
\* uncompressed chunked stores: each transaction of theirs holds the slice
\* of the stored bytes at its position.
PositionIn(txids, txid) ==
  IF \E k \in 1..Len(txids) : txids[k] = txid
  THEN CHOOSE k \in 1..Len(txids) : txids[k] = txid
  ELSE 0
PlainChunkedStores ==
  {i \in 1..Len(stores) :
     /\ stores[i].ret.success
     /\ Len(stores[i].ret.chunk_txids) > 0
     /\ ~stores[i].req.compress}

\* A failed result that still carries `data` and metadata.
FailedButInformative(ret, data) ==
  /\ ~ret.success
  /\ ~ret.verified
  /\ NonEmptyText(ret.error)
  /\ ret.data = Some(data)
  /\ ret.metadata.some

\* C5: when the bytes get(verify=True) or get_chunked(verify=True) recovers
\* (one chunk of a set, or chunks of a set reassembled in another order or
\* in part) do not hash to the data_hash their metadata names, the result
\* has success = false, verified = false, an error that is not empty, and
\* the recovered bytes and the metadata.
C5_MismatchInformative ==
  \A i \in PlainChunkedStores :
    LET txids  == stores[i].ret.chunk_txids
        slices == chunk_data(stores[i].req.data)
    IN
    /\ (op.name = "get" /\ op.verify /\ op.mode = "ok"
          /\ PositionIn(txids, op.txid) > 0)
         => LET piece == slices[PositionIn(txids, op.txid)] IN
            sha256_hexdigest(piece) # stores[i].ret.data_hash
              => FailedButInformative(op.ret, piece)
    /\ (op.name = "get_chunked" /\ op.verify /\ op.failAt = 0
          /\ Len(op.chunk_txids) > 0
          /\ \A k \in 1..Len(op.chunk_txids) : PositionIn(txids, op.chunk_txids[k]) > 0)
         => LET joined == BJoin([k \in 1..Len(op.chunk_txids) |->
                                   slices[PositionIn(txids, op.chunk_txids[k])]]) IN
            sha256_hexdigest(joined) # stores[i].ret.data_hash
              => FailedButInformative(op.ret, joined)

\* C5's case: the three chunks of a set, reassembled in another order, did
\* not hash to the set's data_hash.
C5_Witness ==
  /\ op.name = "get_chunked" /\ op.verify /\ op.failAt = 0
  /\ Len(op.chunk_txids) = 3
  /\ \E i \in PlainChunkedStores :
       /\ op.chunk_txids = Reverse(stores[i].ret.chunk_txids)
       /\ op.ret.data.some
       /\ sha256_hexdigest(op.ret.data.v) # stores[i].ret.data_hash
  /\ ~op.ret.success

\* C6: verify(txid, h) of the one transaction of a successful store of d
\* returns true exactly when h is the SHA-256 of d, the empty d included.
C6_VerifySound ==
  (op.name = "verify" /\ op.mode = "ok")
    => \A i \in SingleStoreOf(op.txid) :
         op.ret = (op.expected_hash = sha256_hexdigest(stores[i].req.data))

\* C7: every result of store, store_reference, get, get_chunked and
\* get_by_hash that is not a success carries an error that is not empty,
\* whatever the transport did.
C7_FailuresExplained ==
  (op.name \in {"store", "store_reference", "get", "get_chunked", "get_by_hash"}
     /\ ~op.ret.success)
    => NonEmptyText(op.ret.error)

\* C8: get of a transaction whose payload has another prefix, or a metadata
\* block that is no JSON object with a name and a data_type of the enum,
\* returns success = false with a "Failed to parse payload" error and
\* neither data nor metadata: _parse_payload raised its ValueError.
C8_BadFramingRejected ==
  (op.name = "get" /\ op.mode = "ok" /\ op.txid \in 1..Len(ForeignPayloads))
    => /\ ~op.ret.success
       /\ op.ret.error.some
       /\ op.ret.error.v[1] = "Failed to parse payload: "
       /\ ~op.ret.data.some
       /\ ~op.ret.metadata.some

\* The result of a store whose _create_storage_payload could not write the
\* metadata length in two bytes.
EncodeFailed(ret) == ret.error = Some(<<"int too big to convert">>)

\* C9: a store that fails because a metadata JSON is over 65535 bytes long
\* returns success = false and has made no client.store_data call.
C9_OversizeNotBroadcast ==
  (op.name = "store" /\ EncodeFailed(op.ret))
    => ~op.ret.success /\ op.calls = <<>>

\* C10: _chunk_data(d) returns max(1, ceil(len(d) / MAX_CHUNK_SIZE)) slices,
\* slice k being d[(k-1) * MAX_CHUNK_SIZE : k * MAX_CHUNK_SIZE]: contiguous,
\* in order, full but for the last; one empty slice for the empty d.
C10_ChunkShape ==
  op.name = "chunk_data"
    => LET n     == BLen(op.data)
           count == IF n = 0 THEN 1 ELSE (n + MAX_CHUNK_SIZE - 1) \div MAX_CHUNK_SIZE
       IN  /\ Len(op.ret) = count
           /\ \A k \in 1..count :
                op.ret[k] = BSlice(op.data, (k - 1) * MAX_CHUNK_SIZE,
                                   IF k * MAX_CHUNK_SIZE < n THEN k * MAX_CHUNK_SIZE ELSE n)

\* C11: the slices of _chunk_data(d), joined in order as get_chunked joins
\* them (b"".join), are d: for the empty d, for lengths that are multiples
\* of MAX_CHUNK_SIZE and for lengths that are not.
C11_SplitJoin ==
  op.name = "chunk_data" => BJoin(op.ret) = op.data

\* C11's case: bytes of two kinds, one more than two full slices long, were
\* cut in three.
C11_Witness ==
  /\ op.name = "chunk_data"
  /\ BLen(op.data) = 2 * MAX_CHUNK_SIZE + 1
  /\ BAt(op.data, 0) # BAt(op.data, 2 * MAX_CHUNK_SIZE)
  /\ Len(op.ret) = 3

\* The transactions of the foreign chain that get(verify=False) retrieves:
\* the well-framed ones but the garbled one, the two whose push length runs
\* past a whole payload, and the deflated ones.
Retrievable ==
  (WellFramedTxids \ {GarbledTxid})
  \cup {GarbledTxid + 7, GarbledTxid + 8}
  \cup {DeflatedTxid(1), DeflatedTxid(2)}

\* Position k of a get_chunked call is the first whose chunk cannot be
\* retrieved: its fetch raises, or its transaction is not retrievable
\* (extraction, parsing or decompression fails).
FirstFailure(k) ==
  /\ k \in 1..Len(op.chunk_txids)
  /\ op.failAt = k \/ op.chunk_txids[k] \notin Retrievable
  /\ \A j \in 1..(k - 1) : op.failAt # j /\ op.chunk_txids[j] \in Retrievable

\* C12: get_chunked asks for the transactions in the order of its list, and
\* when the chunk at a position is the first that cannot be retrieved, the
\* transactions asked for are those up to that position and no later one,
\* and the result has success = false, no data and no metadata.
C12_AbortAtFirstFailure ==
  op.name = "get_chunked"
    => /\ \E n \in 0..Len(op.chunk_txids) : op.fetches = SubSeq(op.chunk_txids, 1, n)
       /\ \A k \in 1..Len(op.chunk_txids) :
            FirstFailure(k)
              => /\ op.fetches = SubSeq(op.chunk_txids, 1, k)
                 /\ ~op.ret.success
                 /\ op.ret.data = None
                 /\ op.ret.metadata = None

\* C12's case: of three chunks the second failed to parse, after the first
\* was retrieved, and the third was not asked for.
C12_Witness ==
  /\ op.name = "get_chunked"
  /\ Len(op.chunk_txids) = 3
  /\ op.failAt = 0
  /\ FirstFailure(2)
  /\ op.chunk_txids[2] = 1
  /\ Len(op.fetches) = 2
  /\ ~op.ret.success

\* The transactions txids names are one complete chunk set: as many as
\* their total_chunks says, the one at each position written as the chunk
\* of that position by a chunked store of that many chunks, all under the
\* same data_hash.
FormsChunkSet(txids) ==
  /\ Len(txids) > 0
  /\ \E h \in {stores[i].ret.data_hash : i \in 1..Len(stores)} :
       \A j \in 1..Len(txids) :
         \E i \in 1..Len(stores) :
           /\ stores[i].ret.data_hash = h
           /\ Len(stores[i].ret.chunk_txids) = Len(txids)
           /\ stores[i].ret.chunk_txids[j] = txids[j]

\* C13: get_chunked returns success = true, with either value of verify,
\* only when the transactions it was given are one complete chunk set.
C13_OnlyCompleteSets ==
  (op.name = "get_chunked" /\ op.ret.success) => FormsChunkSet(op.chunk_txids)

\* C14: when the chunk at 0-based position k of the list is the first that
\* cannot be retrieved, the error of get_chunked's result names index k, in
\* the numbering of chunk_index, and goes on with the error of the failing
\* get.  (FirstFailure counts positions from 1.)
C14_ErrorNamesIndex ==
  op.name = "get_chunked"
    => \A p \in 1..Len(op.chunk_txids) :
         FirstFailure(p)
           => /\ op.ret.error.some
              /\ Len(op.ret.error.v) > 3
              /\ op.ret.error.v[1] = "Failed to retrieve chunk "
              /\ op.ret.error.v[2] = ToString(p - 1)
              /\ op.ret.error.v[3] = ": "

\* C15: get of a transaction whose script's push names more bytes than the
\* script has, or whose script ends inside the length of the push, returns
\* a failed result: the bytes that are there are not taken for the payload.
C15_OverlongRejected ==
  (op.name = "get" /\ op.mode = "ok" /\ op.txid \in OverlongTxids \cup {CutTxid})
    => ~op.ret.success

\* The kinds of output whose script starts with 0x00 0x6a and a push
\* opcode (at most 0x4e), and the first of them in a list of outputs.
MatchingKinds == {"seth", "eighty", "nothing"}
FirstMatch(kinds) ==
  IF \E i \in 1..Len(kinds) : kinds[i] \in MatchingKinds
  THEN Some(PushedBy(kinds[CHOOSE i \in 1..Len(kinds) :
                             /\ kinds[i] \in MatchingKinds
                             /\ \A j \in 1..(i - 1) : kinds[j] \notin MatchingKinds]))
  ELSE None

\* C16: _extract_op_return_data of a transaction with any list of outputs
\* returns, without raising, what the first output pushes whose script
\* starts with 0x00 0x6a and a push opcode, the outputs before it that lack
\* the marker or have a byte above 0x4e after it being passed over; it
\* returns None when there is no such output, and get then returns
\* success = false with "No OP_RETURN data found in transaction".
C16_SkipNonMatching ==
  /\ op.name = "extract of outputs" => op.ret = Ok(FirstMatch(op.kinds))
  /\ (op.name = "get of outputs" /\ FirstMatch(op.kinds) = None)
       => op.ret = RetrievalResult(FALSE, None, None,
                     Some(<<"No OP_RETURN data found in transaction">>), FALSE)

\* C16's case: the push of the third output was returned, after an output
\* with OP_1 behind the marker and one with the marker not at the start.
C16_Witness ==
  /\ op.name = "extract of outputs"
  /\ op.kinds = <<"op_1", "late", "eighty">>
  /\ op.ret = Ok(Some(Rep(7, 80)))

\* C17: an output that gives its script bytes, 0x00 0x6a and a push, but no
\* asm text is read like the output with the same bytes and an asm text:
\* get of the transaction whose output holds the first well-framed payload
\* without asm recovers that payload's data.
C17_AsmOptional ==
  (op.name = "get" /\ op.mode = "ok" /\ op.txid = AsmAbsentTxid)
    => op.ret.success /\ op.ret.data = Some(D_seth)

\* C18: _prepare_data returns the zlib stream with the flag true exactly
\* when compress is asked for, the data is over 1000 bytes long and the
\* stream is under nine tenths of its length; in every other case, the
\* data of at most 1000 bytes among them, it returns the data as given
\* with the flag false.
C18_CompressionDecision ==
  op.name = "prepare_data"
    => LET stream == zlib_compress(op.data)
           pays   == /\ op.compress
                     /\ BLen(op.data) > 1000
                     /\ 10 * BLen(stream) < 9 * BLen(op.data)
       IN  /\ pays => op.ret = <<stream, TRUE>>
           /\ ~pays => op.ret = <<op.data, FALSE>>

\* C18's case: 2000 bytes whose stream is 1800 bytes long, nine tenths and
\* not under, were returned as given.
C18_Witness ==
  /\ op.name = "prepare_data"
  /\ op.compress
  /\ BLen(op.data) = 2000
  /\ BLen(zlib_compress(op.data)) = 1800
  /\ op.ret = <<op.data, FALSE>>

C20_PerChunkMetadata ==
  (op.name = "store" /\ op.ret.success /\ Len(op.ret.chunk_txids) > 0)
    => LET n == Len(op.ret.chunk_txids) IN
       /\ Len(op.calls) = n
       /\ \A k \in 1..n :
            LET parsed == parse_payload(op.calls[k].data, Now) IN
            /\ parsed.exc = ""
            /\ parsed.v[1].chunk_index = JInt(k - 1)
            /\ parsed.v[1].total_chunks = JInt(n)
            /\ parsed.v[1].data_hash = JStr(sha256_hexdigest(op.req.data))

\* C20's case: 190000 bytes were stored uncompressed in three chunks.
C20_Witness ==
  /\ op.name = "store" /\ op.ret.success
  /\ op.req.data = D_big /\ ~op.req.compress
  /\ Len(op.ret.chunk_txids) = 3
  /\ Len(op.calls) = 3

\* C21: the metadata of every payload store hands to store_data, the one
\* payload of a single store or a chunk's, compressed or not, has
\* size_bytes = the length of the data given to store.
C21_SizeIsOriginal ==
  op.name = "store"
    => \A k \in 1..Len(op.calls) :
         LET parsed == parse_payload(op.calls[k].data, Now) IN
         /\ parsed.exc = ""
         /\ parsed.v[1].size_bytes = JInt(BLen(op.req.data))

\* C22: every buffer store hands to client.store_data, the one payload of
\* a single store or a chunk's payload with its prefix, length and
\* metadata, is at most MAX_CHUNK_SIZE bytes long.
C22_BuffersBounded ==
  op.name = "store"
    => \A k \in 1..Len(op.calls) : BLen(op.calls[k].data) <= MAX_CHUNK_SIZE

\* C23: no two client.store_data calls of one chunked store are given the
\* same UTXO.
C23_ChunksFundedApart ==
  op.name = "store"
    => \A j, k \in 1..Len(op.calls) : j # k => op.calls[j].utxo # op.calls[k].utxo

\* C24: the payload _create_storage_payload makes of data d and metadata m
\* whose JSON is at most 65535 bytes long is the six bytes "BSVLLM", the
\* length of the JSON in two bytes, high byte first, the JSON, and d as it
\* is: 8 + len(JSON) + len(d) bytes in all.
C24_WireLayout ==
  (op.name = "create_storage_payload" /\ BLen(to_json(op.metadata)) <= 65535)
    => LET json == to_json(op.metadata)
           n    == BLen(json)
       IN  /\ op.ret.exc = ""
           /\ BLen(op.ret.v) = 8 + n + BLen(op.data)
           /\ BSlice(op.ret.v, 0, 6) = Bytes(<<66, 83, 86, 76, 76, 77>>)
           /\ BAt(op.ret.v, 6) = n \div 256
           /\ BAt(op.ret.v, 7) = n % 256
           /\ BSlice(op.ret.v, 8, 8 + n) = json
           /\ BFrom(op.ret.v, 8 + n) = op.data

\* C24's case: a payload was made of 2000 bytes of data and of metadata
\* whose length fills both length bytes.
C24_Witness ==
  /\ op.name = "create_storage_payload"
  /\ op.ret.exc = ""
  /\ op.data = D_2000
  /\ BAt(op.ret.v, 6) > 0
  /\ BAt(op.ret.v, 7) > 0
  /\ BLen(op.ret.v) > 2008

\* C25: get_config returns the instance the get_config before it returned,
\* unless reset_config ran in between or none ran before, and then it
\* returns an instance made for this call; and a BSVClient, DatasetStorage
\* or DatasetRetrieval constructed with a config of the caller's holds that
\* config and leaves the global untouched: no instance made, no get_config
\* call.
C25_LazyGlobalConfig ==
  /\ (op.name = "get_config" /\ op.ret.exc = "")
       => IF op.before.last # 0 /\ ~op.before.reset
          THEN op.ret.v = op.before.last /\ cfg.made = op.before.made
          ELSE op.ret.v = op.before.made + 1 /\ cfg.made = op.before.made + 1
  /\ (op.name \in {"BSVClient", "DatasetStorage", "DatasetRetrieval"} /\ op.config.some)
       => /\ op.ret.exc = ""
          /\ op.ret.v.config = op.config.v
          /\ cfg = op.before
          /\ op.name # "BSVClient"
               => op.ret.v.client.config = IF op.client.some THEN op.client.v.config
                                           ELSE op.config.v

\* C25's case: get_config had returned an instance, reset_config ran, and
\* get_config returned another.
C25_Witness ==
  /\ op.name = "get_config"
  /\ op.ret.exc = ""
  /\ op.before.last # 0
  /\ op.before.reset
  /\ op.ret.v # op.before.last

\* C26: a result of get(txid, verify=True) with success = true has
\* verified = true and data whose SHA-256 is the data_hash of its metadata;
\* under metadata with an empty data_hash there is no such result.
C26_SuccessMeansVerified ==
  (op.name = "get" /\ op.verify /\ op.ret.success)
    => /\ op.ret.verified
       /\ op.ret.data.some
       /\ op.ret.metadata.some
       /\ HashEquals(sha256_hexdigest(op.ret.data.v), op.ret.metadata.v.data_hash)

\* The number of slices a store's prepared bytes are cut in.
SliceCount(req) == Len(chunk_data(prepare_data(req.data, req.compress)[1]))

\* C30: in a chunked store, when store_data fails on the chunk at position
\* k, k store_data calls were made and no more, and the result has
\* success = false, an error, the hash of the whole data, and as
\* chunk_txids the txids of the chunks before k, in order; when no
\* store_data call fails, the result has success = true, no txid, and as
\* chunk_txids the txids of all the chunks in order; and without a source
\* UTXO the result is a failure and no store_data call is made.
C30_ChunkedOutcome ==
  (op.name = "store" /\ op.req \in ChunkedRequests)
    => LET n    == SliceCount(op.req)
           base == Len(chain) - Len(op.ret.chunk_txids)
       IN
       /\ ~op.req.source_utxo.some
            => ~op.ret.success /\ op.calls = <<>> /\ NonEmptyText(op.ret.error)
       /\ (op.req.source_utxo.some /\ op.failAt \in 1..n)
            => /\ Len(op.calls) = op.failAt
               /\ ~op.ret.success
               /\ NonEmptyText(op.ret.error)
               /\ op.ret.data_hash = sha256_hexdigest(op.req.data)
               /\ Len(op.ret.chunk_txids) = op.failAt - 1
       /\ (op.req.source_utxo.some /\ op.failAt \notin 1..n)
            => /\ Len(op.calls) = n
               /\ op.ret.success
               /\ op.ret.txid = None
               /\ op.ret.data_hash = sha256_hexdigest(op.req.data)
               /\ Len(op.ret.chunk_txids) = n
       /\ \A j \in 1..Len(op.ret.chunk_txids) :
            /\ op.ret.chunk_txids[j] = base + j
            /\ \E asm \in AsmForms : chain[base + j] = StoredTx(op.calls[j].data, asm)

\* C30's case: the third of three broadcasts failed, and the result names
\* the first two transactions.
C30_Witness ==
  /\ op.name = "store"
  /\ op.req \in ChunkedRequests
  /\ op.failAt = 3
  /\ Len(op.calls) = 3
  /\ ~op.ret.success
  /\ Len(op.ret.chunk_txids) = 2
  /\ Len(chain) = 2

\* The histories run may give a record's status.
Lifecycles ==
  { <<"pending", "running">>,
    <<"pending", "running", "completed">>,
    <<"pending", "running", "failed">> }

\* C27: in BSVApp.run a record's status moves only PENDING -> RUNNING ->
\* COMPLETED or RUNNING -> FAILED, so a record that reached COMPLETED is
\* never changed to FAILED, also when serialising or storing the record
\* fails; and the record run returns is COMPLETED or FAILED, has
\* completed_at set, and has an error exactly when it is FAILED.
C27_StatusLifecycle ==
  /\ \A k \in 1..Len(app.records) : app.records[k].trail \in Lifecycles
  /\ \A c \in 1..Len(app.runs) :
       app.runs[c].pc = "done"
         => LET rec == app.records[app.runs[c].ret]
            IN  /\ rec.status \in {"completed", "failed"}
                /\ rec.completed_at.some
                /\ rec.error.some <=> rec.status = "failed"

\* C28: when calls of run on one app interleave at their awaits, each call
\* returns the record it made, no two calls return the same record, the
\* record has the call's inputs and parameters, and every output the call
\* put on the chain carries the execution_id of the call's record.
C28_OwnRecord ==
  \A c \in 1..Len(app.runs) :
    LET f == app.runs[c] IN
    /\ \A k \in 1..Len(f.tags) : f.tags[k] = app.records[f.made].execution_id
    /\ f.pc = "done"
         => /\ f.ret = f.made
            /\ app.records[f.ret].inputs = f.inputs
            /\ app.records[f.ret].parameters = f.parameters
            /\ \A d \in 1..Len(app.runs) :
                 (d # c /\ app.runs[d].pc = "done") => app.runs[d].ret # f.ret

\* C29: process is called only with every input retrieved, and for every
\* input spec that names a data_hash the bytes process is given, empty
\* bytes too, hash to it; a call that returned without calling process put
\* nothing on the chain and returned a FAILED record.
C29_InputsGateProcess ==
  \A c \in 1..Len(app.runs) :
    LET f == app.runs[c] IN
    /\ f.invoked
         => \A i \in 1..Len(f.inputs) :
              /\ HasKey(f.given, f.inputs[i].name)
              /\ f.inputs[i].data_hash.some
                   => sha256_hexdigest(Lookup(f.given, f.inputs[i].name).s)
                        = f.inputs[i].data_hash.v
    /\ (f.pc = "done" /\ ~f.invoked)
         => /\ f.sends = 0
            /\ app.records[f.ret].status = "failed"

====
